---- MODULE Spec2Model ----
(***************************************************************************)
(* cargo-supply-chain: the local crates.io cache (src/crates_cache.rs).    *)
(*                                                                         *)
(* The model follows one CratesCache object and the cache directory it     *)
(* works on.  Time is counted in whole seconds.  The crates.io server      *)
(* publishes one dump after another; every file content carries the number *)
(* of the dump it was produced from (field dump), which the program does   *)
(* not store and which is used only to state the properties.               *)
(***************************************************************************)
EXTENDS Integers, Sequences, FiniteSets, TLC

\* ---------------------------------------------------------------- bounds
MaxTime == 1
MaxDump == 2
MaxCalls == 2

\* the values of download()'s and expire()'s argument max_age, in seconds
MaxAges == 1..MaxTime

\* ------------------------------------------------------------ file names
METADATA_FS == "metadata.json"
CRATES_FS == "crates.json"
CRATE_OWNERS_FS == "crate_owners.json"
USERS_FS == "users.json"
TEAMS_FS == "teams.json"

\* the files a download has to stage (download(), required_files)
required_files == {CRATE_OWNERS_FS, CRATES_FS, USERS_FS, TEAMS_FS, METADATA_FS}

RecordFiles == required_files \ {METADATA_FS}

\* Path::with_extension("part"): "crates.json" becomes "crates.part"
with_extension(file) ==
    CASE file = METADATA_FS -> "metadata.part"
      [] file = CRATES_FS -> "crates.part"
      [] file = CRATE_OWNERS_FS -> "crate_owners.part"
      [] file = USERS_FS -> "users.part"
      [] file = TEAMS_FS -> "teams.part"

Paths == required_files \cup {with_extension(f) : f \in required_files}

\* position of a file name in the iteration order of a BTreeSet<String>
BTreeOrder(file) ==
    CASE file = CRATE_OWNERS_FS -> 1
      [] file = CRATES_FS -> 2
      [] file = METADATA_FS -> 3
      [] file = TEAMS_FS -> 4
      [] file = USERS_FS -> 5

\* ------------------------------------------------------------- contents
NoEtag == 0

\* Option::None of a memory slot; also the content of a path that does not exist
None == [kind |-> "none", dump |-> 0, timestamp |-> 0, etag |-> NoEtag]

\* a record collection (HashMap of Crate, CrateOwner, User or Team) built from dump d
Collection(d) == [kind |-> "records", dump |-> d, timestamp |-> 0, etag |-> NoEtag]

\* struct MetadataStored { timestamp, etag }, built from dump d
MetadataStored(d, ts, e) == [kind |-> "meta", dump |-> d, timestamp |-> ts, etag |-> e]

\* a .part file whose serialization was cut short by a write error
Truncated == [kind |-> "truncated", dump |-> 0, timestamp |-> 0, etag |-> NoEtag]

\* ---------------------------------------------------------- the archives
\* members of the tar stream, named by the suffix download() routes on
Archives ==
    << <<"README.md", "metadata.json", "crate_owners.csv", "crates.csv",
         "teams.csv", "users.csv", "versions.csv", "version_downloads.csv">>,
       <<"metadata.json", "crates.csv", "README.md">>,
       <<"crates.csv", "crate_owners.csv", "users.csv", "teams.csv">>,
       <<"metadata.json", "crate_owners.csv", "crates.csv", "teams.csv", "users.csv",
         "crates.csv", "versions.csv", "README.md">> >>

\* the if / else-if chain on entry.path_bytes().ends_with(..) in download()
route(entry) ==
    CASE entry = "crate_owners.csv" -> CRATE_OWNERS_FS
      [] entry = "crates.csv" -> CRATES_FS
      [] entry = "users.csv" -> USERS_FS
      [] entry = "teams.csv" -> TEAMS_FS
      [] entry = "metadata.json" -> METADATA_FS
      [] OTHER -> "unused"

\* the archives in which no member routed to a collection comes twice
Unrepeated ==
    {a \in 1..Len(Archives) :
        \A i, j \in 1..Len(Archives[a]) :
            route(Archives[a][i]) = route(Archives[a][j]) /\ route(Archives[a][i]) # "unused"
            => i = j}

VARIABLES
    now,                \* the system clock, in seconds
    server,             \* the dump the server offers: its number, timestamp and etag
    calls,              \* the number of download() calls so far
    faulted,            \* an operation has failed with an I/O or parse error
    dir,                \* the cache path: "absent", "dir", or "notdir"
    fs,                 \* content of every path in the cache directory
    cache_dir,          \* CratesCache.cache_dir is Some
    slots,              \* CratesCache.metadata, crates, crate_owners, users, teams
    pc,                 \* where download() stands: "idle", "ingest", "commit"
    max_age,            \* download()'s argument
    remembered_etag,    \* download()'s local
    response,           \* status, etag header and body of the response
    pos,                \* index of the next archive entry
    staged_files,       \* CacheUpdater.staged_files
    uncommitted_files,  \* commit()'s local
    metadata_file,      \* commit()'s local: the metadata file is still to rename
    result,             \* what download() has just returned
    failed_at,          \* where that download() failed
    expired,            \* what expire() has just returned, and from what
    at_call,            \* what the running download() found when it was called
    looked,             \* what age(), publisher_users() or publisher_teams() has just returned
    fetch,              \* where fetch_owners_of_crates() stands, and what it has collected
    instant,            \* Instant::now(), the monotonic clock, in ticks
    client,             \* RateLimitedClient: last_request_time
    got,                \* what the get() that has just returned did
    retry,              \* get_with_retry(): its locals, the responses it received, its result
    sourced,            \* sourced_dependencies_from_metadata(): arguments, locals, result
    compared,           \* two PublisherData values and what ==, partial_cmp and cmp gave
    cli,                \* the command line and what args_parser() made of it
    second,             \* a second run of download() on the same cache directory
    update,             \* the update subcommand: where it stands and how it ended
    named,              \* crate_names_from_source(): arguments and result
    hashed              \* store_multi_map(): the entries and the HashMap built

vars == <<now, server, calls, faulted, dir, fs, cache_dir, slots, pc, max_age, remembered_etag,
          response, pos, staged_files, uncommitted_files, metadata_file, result,
          failed_at, expired, at_call, looked, fetch, instant, client, got, retry,
          sourced, compared, cli, second, update, named, hashed>>

NoResponse == [status |-> 0, etag |-> NoEtag, dump |-> 0, timestamp |-> 0, archive |-> 0]

\* at_call: the disk, the directory, the value of load_metadata(), the clock and
\* the server's dump at the call; again: the call follows at once a download()
\* that returned without error, with the same max_age and the same dump offered;
\* precondition: the if-none-match header of the request, NoEtag when it has none
NoCall == [fs |-> [p \in Paths |-> None], dir |-> "absent", meta |-> None,
           now |-> 0, server |-> 0, again |-> FALSE, precondition |-> NoEtag]

\* expired: the verdict, the argument, the metadata it was computed from,
\* where the download() that had just returned failed, what it returned and
\* the archive it had received, and whether the directory handle was detached
\* when expire() was called
NoExpire == [state |-> "none", max_age |-> 0, meta |-> None, after |-> "none",
             followed |-> "none", archive |-> 0, detached |-> FALSE]

\* looked: the operation, its argument, the Option it returned ("None", "Some"
\* with the list or the age, or "panic"), whether the directory handle was
\* detached and the crates collection memoized when it was called, and what
\* the download() that had just returned had returned
NoLook == [op |-> "none", name |-> "", kind |-> "none", list |-> << >>, age |-> 0,
           detached |-> FALSE, memoized |-> FALSE, after |-> "none"]

\* fetch: fetch_owners_of_crates() is not running; when it runs: the verdict of
\* expire(), using_cache, the index of the crate the loop is at, what
\* cached.publisher_users() returned for it, and for each crate done whether
\* its publishers came from the cache or from the live API
NoFetch == [pc |-> "idle", state |-> "none", using_cache |-> FALSE, i |-> 0,
            cached_users |-> "none", sources |-> << >>]

\* ------------------------------------------------------- the live API
\* the ticks of the monotonic clock in one second
Second == 2

\* the monotonic clock value up to which time passes by itself and calls begin
MaxInstant == 4

\* the largest value of get_with_retry()'s argument attempts
MaxAttempts == 3

\* client: Option<Instant> as a set with at most one element
NoClient == [last_request_time |-> {}]

\* got: no get() has just returned; when one has: last_request_time before the
\* call, the instant at which the call began, the time it slept, and the time
\* it recorded
NoGet == [prev |-> {}, began |-> 0, slept |-> 0, at |-> 0, returned |-> FALSE]

\* retry: get_with_retry() is not running; when it runs: attempts, count and
\* wait, the statuses of the responses received so far, and what it and its
\* caller publisher_users() or publisher_teams() returned
NoRetry == [pc |-> "idle", attempts |-> 0, count |-> 0, wait |-> 0,
            statuses |-> << >>, result |-> "none", publisher |-> "none"]

\* the live API is not in use
live_idle ==
    /\ instant = 0
    /\ client = NoClient
    /\ got = NoGet
    /\ retry = NoRetry

\* sourced: sourced_dependencies_from_metadata() is not running; when it runs:
\* meta (for every package its dependencies, and workspace_members), no_dev,
\* the keys of how and what (the two maps always have the same keys), the keys
\* of how_new and what_new, the tag how gives each package, ids, the turns of
\* the loop so far, and the dependencies returned as (id, source) pairs
NoSourced == [pc |-> "idle", dependencies_of |-> << >>, workspace_members |-> {},
              no_dev |-> FALSE, how |-> << >>, what |-> {}, what_new |-> {},
              ids |-> {}, turns |-> 0, dependencies |-> {}]

\* struct PublisherData, as the live API gives it
PublisherData(id, login, kind, name, avatar) ==
    [id |-> id, login |-> login, kind |-> kind, name |-> name, avatar |-> avatar]

\* compared: nothing is compared; when two values are: the values, and for
\* each of eq, partial_cmp and cmp the set of what it returned, {} before the
\* call
NoCompared == [a |-> PublisherData(0, "", "user", "None", "None"),
               b |-> PublisherData(0, "", "user", "None", "None"),
               eq |-> {}, partial_cmp |-> {}, cmp |-> {}]

\* no value: of an option that is a flag, or that stands without its value
NoValue == [number |-> 0, unit |-> "-"]

\* cli: no command line is parsed; when one is: the items after the program
\* name, and the CliArgs or the error the parser returned
NoCli == [pc |-> "idle", argv |-> << >>,
          parsed |-> [ok |-> FALSE, command |-> "", cache_max_age |-> 0,
                      diffable |-> FALSE, print_schema |-> FALSE]]

\* the state of the parts that do not touch the cache
\* second: the second run is not started; when it runs: where it stands
\* ("ingest", "commit", "returned"), the dump it received, the index of the next
\* archive entry, its CacheUpdater.staged_files, the locals of its commit(),
\* and Ok or Err when it has returned
NoSecond == [pc |-> "idle", dump |-> 0, pos |-> 0, staged_files |-> {},
             uncommitted_files |-> {}, metadata_file |-> FALSE, result |-> "none"]

\* update: the subcommand is not running; when it has ended: what download()
\* returned and the exit status of the process ("returns" when update() returns)
NoUpdate == [pc |-> "idle", state |-> "none", exit |-> "none"]

\* named: the list of (source, name) of the packages, the source asked for
\* and the Vec returned
NoNamed == [pc |-> "idle", crates |-> << >>, source |-> "none", result |-> << >>]

\* hashed: the entries given to store_multi_map, the index of the entry
\* for_each is at, and the HashMap built so far: the set of its keys and the
\* Vec of every key
NoHashed == [pc |-> "idle", entries |-> << >>, i |-> 0, keys |-> {}, vec |-> << >>]

\* the variables of the operations beside one CratesCache object and the live API
beside == <<second, update, named, hashed>>

beside_idle ==
    /\ second = NoSecond
    /\ update = NoUpdate
    /\ named = NoNamed
    /\ hashed = NoHashed

apart == <<instant, client, got, retry, sourced, compared, cli, beside>>

apart_idle ==
    /\ live_idle
    /\ sourced = NoSourced
    /\ compared = NoCompared
    /\ cli = NoCli
    /\ beside_idle

\* ------------------------------------------------------- freshness policy
\* MetadataStored::age: SystemTime::elapsed fails for a timestamp in the future
age_ok(meta, t) == meta.timestamp <= t

age(meta, t) == t - meta.timestamp

\* MetadataStored::validate: "none", "true" or "false" for Option<bool>
LaxValidate(meta, ma, t) ==
    IF age_ok(meta, t)
    THEN (IF age(meta, t) <= ma THEN "true" ELSE "false")
    ELSE "none"

MetadataStored_validate(meta, ma, t) ==
    IF age_ok(meta, t)
    THEN (IF age(meta, t) < ma THEN "true" ELSE "false")
    ELSE "none"

\* --------------------------------------------------------- lazy loading
\* CacheDir::load_cached: the memoized value, else the file's content;
\* None stands for the Err of a file that cannot be opened
OpensFile(slot, file) == fs[file]

load_cached(slot, file) ==
    IF slot # None THEN slot ELSE fs[file]

\* CacheDir::load_cached: serde_json::from_reader(reader).unwrap() on a file
\* that was opened and does not deserialize
load_panics(file) ==
    cache_dir /\ slots[file] = None /\ fs[file].kind = "truncated"

\* the process has panicked
panicked ==
    expired.state = "panic" \/ looked.kind = "panic" \/ result = "panic"

\* CratesCache::load_metadata: None when the directory handle is detached
load_metadata ==
    IF cache_dir THEN load_cached(slots[METADATA_FS], METADATA_FS) ELSE None

\* the slots after load_metadata(): a value that was loaded is memoized; a
\* detached handle returns before the slot is looked at
slots_after_load_metadata ==
    IF cache_dir THEN [slots EXCEPT ![METADATA_FS] = load_metadata] ELSE slots

\* CratesCache::validate
validate(ma) ==
    IF load_metadata = None THEN "none"
    ELSE MetadataStored_validate(load_metadata, ma, now)

\* CratesCache::expire: the CacheState for each outcome of validate
CacheState(v) ==
    CASE v = "true" -> "Fresh"
      [] v = "none" -> "Unknown"
      [] v = "false" -> "Expired"

\* what expire(ma) on a newly opened CratesCache returns for the disk as it is
expire_on_new_cache(ma) ==
    CacheState(IF load_cached(None, METADATA_FS) = None THEN "none"
               ELSE MetadataStored_validate(load_cached(None, METADATA_FS), ma, now))

TypeOK ==
    /\ now \in 0..MaxTime
    /\ server.dump \in 1..MaxDump
    /\ calls \in 0..MaxCalls
    /\ faulted \in BOOLEAN
    /\ dir \in {"absent", "dir", "notdir"}
    /\ cache_dir \in BOOLEAN
    /\ pc \in {"idle", "ingest", "commit"}
    /\ DOMAIN fs = Paths
    /\ DOMAIN slots = required_files

Init ==
    /\ now = 0
    /\ \E e \in {NoEtag, 1} : server = [dump |-> 1, timestamp |-> 0, etag |-> e]
    /\ calls = 0
    /\ faulted = FALSE
    /\ dir \in {"absent", "dir", "notdir"}
    /\ fs = [p \in Paths |-> None]
    /\ cache_dir = TRUE
    /\ slots = [f \in required_files |-> None]
    /\ pc = "idle"
    /\ max_age = 0
    /\ remembered_etag = NoEtag
    /\ response = NoResponse
    /\ pos = 0
    /\ staged_files = {}
    /\ uncommitted_files = {}
    /\ metadata_file = FALSE
    /\ result = "none"
    /\ failed_at = "none"
    /\ expired = NoExpire
    /\ at_call = NoCall
    /\ apart_idle
    /\ looked = NoLook
    /\ fetch = NoFetch

\* the locals of a download() that has returned are gone; what a call
\* returned is kept for one step only
forget ==
    /\ max_age' = 0
    /\ remembered_etag' = NoEtag
    /\ response' = NoResponse
    /\ result' = "none"
    /\ failed_at' = "none"
    /\ at_call' = NoCall
    /\ UNCHANGED apart
    /\ looked' = NoLook
    /\ UNCHANGED <<pc, pos, staged_files, uncommitted_files, metadata_file, fetch>>

\* ------------------------------------------------------- the environment
\* one second passes
Tick ==
    /\ pc = "idle"
    /\ now < MaxTime
    /\ now' = now + 1
    /\ expired' = NoExpire
    /\ forget
    /\ UNCHANGED <<server, calls, faulted, dir, fs, cache_dir, slots>>

\* the server publishes the next dump, with a new validator if it sends validators
Publish ==
    /\ pc = "idle"
    /\ server.dump < MaxDump
    /\ server' = [dump |-> server.dump + 1, timestamp |-> now,
                  etag |-> IF server.etag = NoEtag THEN NoEtag ELSE server.dump + 1]
    /\ expired' = NoExpire
    /\ forget
    /\ UNCHANGED <<now, calls, faulted, dir, fs, cache_dir, slots>>

\* ---------------------------------------------------------- CratesCache
\* CratesCache::new, in a new invocation of the tool
New ==
    /\ pc = "idle"
    /\ ~cache_dir \/ slots # [f \in required_files |-> None] \/ panicked
    /\ cache_dir' = TRUE
    /\ slots' = [f \in required_files |-> None]
    /\ expired' = NoExpire
    /\ forget
    /\ UNCHANGED <<now, server, calls, faulted, dir, fs>>

\* expire() sets self.cache_dir = None for Unknown and Expired
KeepsHandle(state) == FALSE

detaches(state) == state # "Fresh"

\* CratesCache::expire(ma)
expire(ma) ==
    /\ pc = "idle"
    /\ ~load_panics(METADATA_FS)
    /\ LET state == CacheState(validate(ma)) IN
          /\ expired' = [state |-> state, max_age |-> ma, meta |-> load_metadata,
                         after |-> failed_at, followed |-> result,
                         archive |-> response.archive, detached |-> ~cache_dir]
          /\ cache_dir' = (cache_dir /\ ~detaches(state))
    /\ slots' = slots_after_load_metadata
    /\ forget
    /\ UNCHANGED <<now, server, calls, faulted, dir, fs>>

\* ------------------------------------------------------------ download
\* the precondition download() attaches: the stored validator, when the
\* stored metadata validates as fresh
UnvalidatedIfNoneMatch(meta, ma) ==
    IF meta # None THEN meta.etag ELSE NoEtag

if_none_match(meta, ma) ==
    IF meta # None /\ MetadataStored_validate(meta, ma, now) = "true"
    THEN meta.etag ELSE NoEtag

\* the server's answer to a request carrying precondition inm
status_for(inm) ==
    IF inm # NoEtag /\ inm = server.etag THEN 304 ELSE 200

\* response.status() == 304
MistypedNotModified(status) == status = 340

not_modified(status) == status = 304

\* the members of the response's body; a 304 response has none
body(resp) ==
    IF resp.archive # 0 THEN Archives[resp.archive] ELSE << >>

\* the first lines of download(), up to request.call()
download_request(ma) ==
    /\ pc = "idle"
    /\ calls < MaxCalls
    /\ ~load_panics(METADATA_FS)
    /\ calls' = calls + 1
    /\ max_age' = ma
    /\ remembered_etag' = IF load_metadata # None THEN load_metadata.etag ELSE NoEtag
    /\ slots' = slots_after_load_metadata
    /\ at_call' = [fs |-> fs, dir |-> dir, meta |-> load_metadata, now |-> now,
                   server |-> server.dump,
                   again |-> /\ result \in {"Fresh", "Stale", "Expired"}
                             /\ max_age = ma
                             /\ at_call.server = server.dump,
                   precondition |-> if_none_match(load_metadata, ma)]
    /\ expired' = NoExpire
    /\ UNCHANGED apart
    /\ looked' = NoLook
    /\ UNCHANGED <<now, server, cache_dir, fetch>>

\* download() returns; its locals are dropped
download_returns(res, where) ==
    /\ result' = res
    /\ failed_at' = where
    /\ pc' = "idle"
    /\ pos' = 0
    /\ staged_files' = {}
    /\ uncommitted_files' = {}
    /\ metadata_file' = FALSE

\* an operation fails with an I/O or parse error; the model injects one
\* such failure in a behaviour
fault ==
    /\ ~faulted
    /\ faulted' = TRUE

\* request.call() fails
download_call_fails(ma) ==
    /\ download_request(ma)
    /\ fault
    /\ response' = NoResponse
    /\ download_returns("Err", "request")
    /\ UNCHANGED <<dir, fs>>

\* the response the server sends to this request, with archive a as its body
response_to(ma, a) ==
    [status |-> status_for(if_none_match(load_metadata, ma)),
     etag |-> server.etag, dump |-> server.dump, timestamp |-> server.timestamp,
     archive |-> IF status_for(if_none_match(load_metadata, ma)) = 200 THEN a ELSE 0]

\* the response is "not modified"
download_not_modified(ma) ==
    /\ download_request(ma)
    /\ not_modified(response_to(ma, 0).status)
    /\ response' = response_to(ma, 0)
    /\ download_returns("Fresh", "none")
    /\ UNCHANGED <<faulted, dir, fs>>

\* CacheUpdater::new: fs::create_dir_all fails
download_create_dir_fails(ma) ==
    /\ download_request(ma)
    /\ ~not_modified(response_to(ma, 0).status)
    /\ dir = "absent"
    /\ fault
    /\ response' = response_to(ma, 0)
    /\ download_returns("Err", "updater")
    /\ UNCHANGED <<dir, fs>>

\* CacheUpdater::new: the path exists and is not a directory
RemovesEntry(ma) ==
    /\ download_request(ma)
    /\ ~not_modified(response_to(ma, 0).status)
    /\ dir = "notdir"
    /\ dir' = "absent"
    /\ response' = response_to(ma, 0)
    /\ download_returns("Err", "updater")
    /\ UNCHANGED <<faulted, fs>>

download_not_a_directory(ma) ==
    /\ download_request(ma)
    /\ ~not_modified(response_to(ma, 0).status)
    /\ dir = "notdir"
    /\ response' = response_to(ma, 0)
    /\ download_returns("Err", "updater")
    /\ UNCHANGED <<faulted, dir, fs>>

\* CacheUpdater::new succeeds, creating the directory if it has to, and
\* the archive is opened
download_ingests(ma, a) ==
    /\ download_request(ma)
    /\ ~not_modified(response_to(ma, a).status)
    /\ dir # "notdir"
    /\ dir' = "dir"
    /\ response' = response_to(ma, a)
    /\ pc' = "ingest"
    /\ pos' = 1
    /\ staged_files' = {}
    /\ uncommitted_files' = {}
    /\ metadata_file' = FALSE
    /\ result' = "none"
    /\ failed_at' = "none"
    /\ UNCHANGED <<faulted, fs>>

\* -------------------------------------------------------------- ingest
entries == body(response)

\* what an archive member deserializes to
StampedAtDownload(file) ==
    IF file = METADATA_FS
    THEN MetadataStored(response.dump, now, response.etag)
    ELSE Collection(response.dump)

parsed(file) ==
    IF file = METADATA_FS
    THEN MetadataStored(response.dump, response.timestamp, response.etag)
    ELSE Collection(response.dump)

\* CacheUpdater::store: `*cache = None; cache.get_or_insert(value)`, the slot
\* after store()
GetOrInsert(cache, value) == IF cache # None THEN cache ELSE value

stored(cache, value) == value

\* CacheUpdater::store, out_path
FinalNameOutPath(file) == file

out_path(file) == with_extension(file)

call_state == <<now, server, calls, dir, cache_dir, max_age, remembered_etag,
                response, expired, at_call, looked, apart, fetch>>

\* a member the loop routes to a collection is read and stored
ingest_store ==
    /\ pc = "ingest"
    /\ pos <= Len(entries)
    /\ route(entries[pos]) # "unused"
    /\ slots' = [slots EXCEPT ![route(entries[pos])] =
                    stored(slots[route(entries[pos])], parsed(route(entries[pos])))]
    /\ staged_files' = staged_files \cup {route(entries[pos])}
    /\ fs' = [fs EXCEPT ![out_path(route(entries[pos]))] = parsed(route(entries[pos]))]
    /\ pos' = pos + 1
    /\ UNCHANGED <<call_state, faulted, pc, uncommitted_files, metadata_file, result,
                   failed_at>>

\* read_csv_data or serde_json::from_reader fails on the member
ingest_parse_fails ==
    /\ pc = "ingest"
    /\ pos <= Len(entries)
    /\ route(entries[pos]) # "unused"
    /\ fault
    /\ download_returns("Err", "ingest")
    /\ UNCHANGED <<call_state, fs, slots>>

\* store(): File::create fails
ingest_create_fails ==
    /\ pc = "ingest"
    /\ pos <= Len(entries)
    /\ route(entries[pos]) # "unused"
    /\ slots' = [slots EXCEPT ![route(entries[pos])] =
                    stored(slots[route(entries[pos])], parsed(route(entries[pos])))]
    /\ fault
    /\ download_returns("Err", "ingest")
    /\ UNCHANGED <<call_state, fs>>

\* store(): serde_json::to_writer fails after File::create
ingest_write_fails ==
    /\ pc = "ingest"
    /\ pos <= Len(entries)
    /\ route(entries[pos]) # "unused"
    /\ slots' = [slots EXCEPT ![route(entries[pos])] =
                    stored(slots[route(entries[pos])], parsed(route(entries[pos])))]
    /\ fs' = [fs EXCEPT ![out_path(route(entries[pos]))] = Truncated]
    /\ fault
    /\ download_returns("Err", "ingest")
    /\ UNCHANGED call_state

\* required_files.is_subset(&cache_updater.staged_files)
NeverAllStaged(staged) == FALSE

all_staged(staged) == required_files \subseteq staged

\* a member with a name download() does not use, before all files are staged
ingest_skip ==
    /\ pc = "ingest"
    /\ pos <= Len(entries)
    /\ route(entries[pos]) = "unused"
    /\ ~all_staged(staged_files)
    /\ pos' = pos + 1
    /\ UNCHANGED <<call_state, faulted, fs, slots, pc, staged_files, uncommitted_files,
                   metadata_file, result, failed_at>>

\* the loop ends (break, or no more members) and commit() takes the staged set
ingest_ends ==
    /\ pc = "ingest"
    /\ \/ pos > Len(entries)
       \/ /\ pos <= Len(entries)
          /\ route(entries[pos]) = "unused"
          /\ all_staged(staged_files)
    /\ pc' = "commit"
    /\ uncommitted_files' = staged_files \ {METADATA_FS}
    /\ metadata_file' = (METADATA_FS \in staged_files)
    /\ staged_files' = {}
    /\ UNCHANGED <<call_state, faulted, fs, slots, pos, result, failed_at>>

\* -------------------------------------------------------------- commit
\* the first file name of a set in BTreeSet order
first_of(files) ==
    CHOOSE f \in files : \A g \in files : BTreeOrder(f) <= BTreeOrder(g)

\* the file commit() renames next
MetadataFirst(uncommitted, metadata) ==
    IF metadata THEN METADATA_FS
    ELSE IF uncommitted # {} THEN first_of(uncommitted)
    ELSE "done"

commit_next(uncommitted, metadata) ==
    IF uncommitted # {} THEN first_of(uncommitted)
    ELSE IF metadata THEN METADATA_FS
    ELSE "done"

\* fs::rename(source, destination)
rename(source, destination) ==
    [fs EXCEPT ![destination] = fs[source], ![source] = None]

\* the comparison download() ends with
SwappedDownloadState(remembered, etag) ==
    IF remembered = etag THEN "Expired" ELSE "Stale"

DownloadState(remembered, etag) ==
    IF remembered = etag THEN "Stale" ELSE "Expired"

\* fs::rename fails with NotFound when its source does not exist
NeverExists(path) == FALSE

exists(path) == fs[path] # None

\* one fs::rename of commit() succeeds
commit_rename ==
    /\ pc = "commit"
    /\ commit_next(uncommitted_files, metadata_file) # "done"
    /\ exists(with_extension(commit_next(uncommitted_files, metadata_file)))
    /\ LET file == commit_next(uncommitted_files, metadata_file) IN
          /\ fs' = rename(with_extension(file), file)
          /\ uncommitted_files' = uncommitted_files \ {file}
          /\ metadata_file' = (metadata_file /\ file # METADATA_FS)
    /\ UNCHANGED <<call_state, faulted, slots, pc, pos, staged_files, result, failed_at>>

\* one fs::rename of commit() fails and download() returns its error
commit_rename_fails ==
    /\ pc = "commit"
    /\ commit_next(uncommitted_files, metadata_file) # "done"
    /\ fault
    /\ download_returns("Err", IF commit_next(uncommitted_files, metadata_file) = METADATA_FS
                               THEN "commit_metadata" ELSE "commit")
    /\ UNCHANGED <<call_state, fs, slots>>

\* commit() returns Ok and download() compares the validators
download_ok ==
    /\ pc = "commit"
    /\ commit_next(uncommitted_files, metadata_file) = "done"
    /\ download_returns(DownloadState(remembered_etag, response.etag), "none")
    /\ UNCHANGED <<call_state, faulted, fs, slots>>

Next ==
    \/ Tick
    \/ Publish
    \/ New
    \/ \E ma \in MaxAges : expire(ma)
    \/ \E ma \in MaxAges : download_call_fails(ma)
    \/ \E ma \in MaxAges : download_not_modified(ma)
    \/ \E ma \in MaxAges : download_create_dir_fails(ma)
    \/ \E ma \in MaxAges : download_not_a_directory(ma)
    \/ \E ma \in MaxAges, a \in Unrepeated : download_ingests(ma, a)
    \/ ingest_store
    \/ ingest_parse_fails
    \/ ingest_create_fails
    \/ ingest_write_fails
    \/ ingest_skip
    \/ ingest_ends
    \/ commit_rename
    \/ commit_rename_fails
    \/ download_ok

Spec == Init /\ [][Next]_vars

\* ------------------------------------------------------ the dump's records
\* the crate names the lookups are asked about; "zz" is in no dump
CrateNames == {"a", "b", "c", "zz"}

\* struct Crate rows of crates.csv in dump d
crates_csv(d) ==
    << [name |-> "a", id |-> 1], [name |-> "b", id |-> 2], [name |-> "c", id |-> 3] >>

\* struct CrateOwner rows of crate_owners.csv in dump d, in file order; crate 3
\* has no row in dump 1, owners 98 and 99 are in no users.csv or teams.csv, and
\* one row of crate 2 has an owner_kind that is neither 0 nor 1
crate_owners_csv(d) ==
    << [crate_id |-> 1, owner_id |-> 11, owner_kind |-> 0],
       [crate_id |-> 2, owner_id |-> 10, owner_kind |-> 2],
       [crate_id |-> 2, owner_id |-> 20, owner_kind |-> 1],
       [crate_id |-> 1, owner_id |-> 99, owner_kind |-> 0],
       [crate_id |-> 1, owner_id |-> 10, owner_kind |-> 0],
       [crate_id |-> 1, owner_id |-> 20, owner_kind |-> 1],
       [crate_id |-> 1, owner_id |-> 98, owner_kind |-> 1] >>
    \o (IF d = 1 THEN << >>
        ELSE << [crate_id |-> 3, owner_id |-> 10, owner_kind |-> 0] >>)

\* struct User rows of users.csv in dump d
users_csv(d) ==
    << [id |-> 10, gh_login |-> "alice", name |-> "Alice", gh_avatar |-> "alice.png"],
       [id |-> 11, gh_login |-> "bob", name |-> IF d = 1 THEN "Bob" ELSE "Robert",
        gh_avatar |-> "bob.png"] >>

\* struct Team rows of teams.csv in dump d
teams_csv(d) ==
    << [id |-> 20, login |-> "github:org:core", name |-> "Core", avatar |-> "core.png"] >>

\* store_map: the HashMap from key_fn(entry) to the entry, as the set of its
\* keys and the entry of a key (a later row with the same key replaces an
\* earlier one); key_fn is given as the name of the field it returns
keys(table, key_fn) == {table[i][key_fn] : i \in 1..Len(table)}

get(table, key_fn, key) ==
    table[CHOOSE i \in 1..Len(table) :
             /\ table[i][key_fn] = key
             /\ \A j \in 1..Len(table) : table[j][key_fn] = key => j <= i]

\* store_multi_map: the Vec of the rows with the key, in row order; a key is
\* in the HashMap when a row carries it
get_multi(table, key_fn, key) ==
    SelectSeq(table, LAMBDA row : row[key_fn] = key)

\* the key_fn closures download() passes
crate_name == "name"
owner_crate_id == "crate_id"
row_id == "id"

\* ----------------------------------------------------------- the lookups
\* a load_*() of CratesCache: the Option it returns (None as a value)
AttachedLoad(file) == load_cached(slots[file], file)

load(file) ==
    IF cache_dir THEN load_cached(slots[file], file) ELSE None

\* the Option a lookup returns, and the slots its loads have memoized
Outcome(kind, list, memo) == [kind |-> kind, list |-> list, memo |-> memo]

\* PublisherData built from a User row
LoginForName(user) ==
    [id |-> user.id, avatar |-> user.gh_avatar, url |-> "None",
     login |-> user.name, name |-> user.gh_login, kind |-> "user"]

user_publisher(user) ==
    [id |-> user.id, avatar |-> user.gh_avatar, url |-> "None",
     login |-> user.gh_login, name |-> user.name, kind |-> "user"]

\* PublisherData built from a Team row
team_publisher(team) ==
    [id |-> team.id, avatar |-> team.avatar, url |-> "None",
     login |-> team.login, name |-> team.name, kind |-> "team"]

\* PublisherData built from a row of the users (kind 0) or teams (kind 1) index
publisher(kind, row) ==
    IF kind = 0 THEN user_publisher(row) ELSE team_publisher(row)

\* the closure of filter: owner.owner_kind == 0 in publisher_users, == 1 in
\* publisher_teams
EveryOwnerKind(owner, kind) == TRUE

filter_owner_kind(owner, kind) == owner.owner_kind = kind

\* filter(owner_kind == kind) and filter_map(index.get(owner_id)) over the owners
RECURSIVE publishers_of(_, _, _)
publishers_of(owners, kind, index) ==
    IF owners = << >> THEN << >>
    ELSE (IF /\ filter_owner_kind(Head(owners), kind)
             /\ Head(owners).owner_id \in keys(index, row_id)
          THEN << publisher(kind, get(index, row_id, Head(owners).owner_id)) >>
          ELSE << >>)
         \o publishers_of(Tail(owners), kind, index)

\* the rows a loaded collection holds
rows(file, collection) ==
    CASE file = CRATES_FS -> crates_csv(collection.dump)
      [] file = CRATE_OWNERS_FS -> crate_owners_csv(collection.dump)
      [] file = USERS_FS -> users_csv(collection.dump)
      [] file = TEAMS_FS -> teams_csv(collection.dump)

\* the ? on crate_owners.get(&id): the crate id is not a key of the map
no_owners_entry(owners) == owners = << >>

\* the body of publisher_users (kind 0, users index) and publisher_teams
\* (kind 1, teams index), with the slots each load_*() memoizes on the way
publisher_lookup(name, kind, index_fs) ==
    IF load_panics(CRATES_FS) THEN Outcome("panic", << >>, {})
    ELSE IF load(CRATES_FS) = None THEN Outcome("None", << >>, {})
    ELSE IF name \notin keys(rows(CRATES_FS, load(CRATES_FS)), crate_name)
    THEN Outcome("None", << >>, {CRATES_FS})
    ELSE IF load_panics(CRATE_OWNERS_FS) THEN Outcome("panic", << >>, {CRATES_FS})
    ELSE IF load(CRATE_OWNERS_FS) = None THEN Outcome("None", << >>, {CRATES_FS})
    ELSE LET id == get(rows(CRATES_FS, load(CRATES_FS)), crate_name, name).id
             owners == get_multi(rows(CRATE_OWNERS_FS, load(CRATE_OWNERS_FS)),
                                 owner_crate_id, id)
         IN  IF no_owners_entry(owners)
             THEN Outcome("None", << >>, {CRATES_FS, CRATE_OWNERS_FS})
             ELSE IF load_panics(index_fs)
             THEN Outcome("panic", << >>, {CRATES_FS, CRATE_OWNERS_FS})
             ELSE IF load(index_fs) = None
             THEN Outcome("None", << >>, {CRATES_FS, CRATE_OWNERS_FS})
             ELSE Outcome("Some",
                          publishers_of(owners, kind, rows(index_fs, load(index_fs))),
                          {CRATES_FS, CRATE_OWNERS_FS, index_fs})

\* the locals of the download() that returned last are gone
forget_download ==
    /\ max_age' = 0
    /\ remembered_etag' = NoEtag
    /\ response' = NoResponse
    /\ result' = "none"
    /\ failed_at' = "none"
    /\ at_call' = NoCall
    /\ expired' = NoExpire
    /\ UNCHANGED <<pc, pos, staged_files, uncommitted_files, metadata_file>>

\* a lookup returns (or panics) and leaves what it loaded in the slots
lookup_returns(op, name, out) ==
    /\ UNCHANGED apart
    /\ looked' = [op |-> op, name |-> name, kind |-> out.kind, list |-> out.list,
                  age |-> 0, detached |-> ~cache_dir,
                  memoized |-> slots[CRATES_FS] # None, after |-> result]
    /\ slots' = [f \in required_files |-> IF f \in out.memo THEN load(f) ELSE slots[f]]
    /\ forget_download
    /\ UNCHANGED <<now, server, calls, faulted, dir, fs, cache_dir>>

\* CratesCache::publisher_users(name)
publisher_users(name) ==
    /\ pc = "idle" /\ fetch.pc = "idle"
    /\ lookup_returns("publisher_users", name, publisher_lookup(name, 0, USERS_FS))
    /\ UNCHANGED fetch

\* CratesCache::publisher_teams(name)
publisher_teams(name) ==
    /\ pc = "idle" /\ fetch.pc = "idle"
    /\ lookup_returns("publisher_teams", name, publisher_lookup(name, 1, TEAMS_FS))
    /\ UNCHANGED fetch

\* CratesCache::age(): load_metadata() and meta.age().ok()
CratesCache_age ==
    /\ pc = "idle"
    /\ UNCHANGED apart
    /\ looked' = [op |-> "age", name |-> "",
                  kind |-> IF load_panics(METADATA_FS) THEN "panic"
                           ELSE IF load_metadata = None \/ ~age_ok(load_metadata, now)
                           THEN "None" ELSE "Some",
                  list |-> << >>,
                  age |-> IF load_panics(METADATA_FS) \/ load_metadata = None
                             \/ ~age_ok(load_metadata, now)
                          THEN 0 ELSE age(load_metadata, now),
                  detached |-> ~cache_dir, memoized |-> slots[CRATES_FS] # None,
                  after |-> result]
    /\ slots' = IF load_panics(METADATA_FS) THEN slots ELSE slots_after_load_metadata
    /\ forget_download
    /\ UNCHANGED <<now, server, calls, faulted, dir, fs, cache_dir, fetch>>

\* expire(ma) over a metadata.json that does not deserialize: load_cached panics
expire_panics(ma) ==
    /\ pc = "idle"
    /\ load_panics(METADATA_FS)
    /\ expired' = [state |-> "panic", max_age |-> ma, meta |-> None, after |-> failed_at,
                   followed |-> result, archive |-> response.archive,
                   detached |-> ~cache_dir]
    /\ forget
    /\ UNCHANGED <<now, server, calls, faulted, dir, fs, cache_dir, slots>>

\* download(ma) over a metadata.json that does not deserialize: load_cached panics
download_panics(ma) ==
    /\ pc = "idle"
    /\ calls < MaxCalls
    /\ load_panics(METADATA_FS)
    /\ calls' = calls + 1
    /\ result' = "panic"
    /\ failed_at' = "request"
    /\ max_age' = ma
    /\ at_call' = [NoCall EXCEPT !.fs = fs, !.dir = dir, !.now = now]
    /\ expired' = NoExpire
    /\ UNCHANGED apart
    /\ looked' = NoLook
    /\ UNCHANGED <<now, server, faulted, dir, fs, cache_dir, slots, pc, remembered_etag,
                   response, pos, staged_files, uncommitted_files, metadata_file, fetch>>

\* ------------------------------------------------------- other statuses
\* statuses a server may answer with besides 200 and 304
OtherStatuses == {203, 404, 503}

\* request.call() of ureq returns Err for a status of 400 and above, and the
\* response for every other status; download() maps the Err to io::Error
call_is_err(status) == status >= 400

\* the server answers with a status for which request.call() is Err
download_status_err(ma, status) ==
    /\ download_request(ma)
    /\ call_is_err(status)
    /\ response' = [NoResponse EXCEPT !.status = status]
    /\ download_returns("Err", "request")
    /\ UNCHANGED <<faulted, dir, fs>>

\* the server answers with another status for which request.call() is Ok, and
\* with archive a as the body: download() goes on as it does for 200
download_ingests_status(ma, status, a) ==
    /\ download_request(ma)
    /\ ~call_is_err(status)
    /\ ~not_modified(status)
    /\ dir # "notdir"
    /\ dir' = "dir"
    /\ response' = [status |-> status, etag |-> server.etag, dump |-> server.dump,
                    timestamp |-> server.timestamp, archive |-> a]
    /\ pc' = "ingest"
    /\ pos' = 1
    /\ staged_files' = {}
    /\ uncommitted_files' = {}
    /\ metadata_file' = FALSE
    /\ result' = "none"
    /\ failed_at' = "none"
    /\ UNCHANGED <<faulted, fs>>

\* ------------------------------------------- the cache and its lookups
\* the cache directory a run of the tool may find: the files of the first
\* dump as an earlier update committed them, where one of them may be missing
\* or may not deserialize; or no file at all
FirstDump(file) ==
    IF file = METADATA_FS THEN MetadataStored(1, 0, 1) ELSE Collection(1)

Disks ==
    {[p \in Paths |-> None]}
    \cup {[p \in Paths |-> IF p \in required_files THEN FirstDump(p) ELSE None]}
    \cup {[p \in Paths |-> IF p = damaged THEN content
                           ELSE IF p \in required_files THEN FirstDump(p) ELSE None] :
             damaged \in required_files, content \in {None, Truncated}}

InitLookup ==
    /\ now = 0
    /\ server = [dump |-> 1, timestamp |-> 0, etag |-> 1]
    /\ calls = 0
    /\ faulted = FALSE
    /\ dir = "dir"
    /\ fs \in Disks
    /\ cache_dir = TRUE
    /\ slots = [f \in required_files |-> None]
    /\ pc = "idle"
    /\ max_age = 0
    /\ remembered_etag = NoEtag
    /\ response = NoResponse
    /\ pos = 0
    /\ staged_files = {}
    /\ uncommitted_files = {}
    /\ metadata_file = FALSE
    /\ result = "none"
    /\ failed_at = "none"
    /\ expired = NoExpire
    /\ at_call = NoCall
    /\ apart_idle
    /\ looked = NoLook
    /\ fetch = NoFetch

\* the operations of CratesCache over such a directory, with every server
\* answer and every archive; the failures of single I/O operations are in Spec
NextLookup ==
    \/ New
    \/ ~panicked /\ Tick
    \/ ~panicked /\ Publish
    \/ ~panicked /\ \E ma \in MaxAges : expire(ma)
    \/ ~panicked /\ \E ma \in MaxAges : expire_panics(ma)
    \/ ~panicked /\ \E ma \in MaxAges : download_panics(ma)
    \/ ~panicked /\ \E ma \in MaxAges : download_not_modified(ma)
    \/ ~panicked /\ \E ma \in MaxAges, a \in 1..Len(Archives) : download_ingests(ma, a)
    \/ ~panicked /\ \E ma \in MaxAges, status \in OtherStatuses :
                       download_status_err(ma, status)
    \/ ~panicked /\ \E ma \in MaxAges, status \in OtherStatuses, a \in 1..Len(Archives) :
                       download_ingests_status(ma, status, a)
    \/ ingest_store
    \/ ingest_skip
    \/ ingest_ends
    \/ commit_rename
    \/ download_ok
    \/ ~panicked /\ \E name \in CrateNames : publisher_users(name)
    \/ ~panicked /\ \E name \in CrateNames : publisher_teams(name)
    \/ ~panicked /\ CratesCache_age

SpecLookup == InitLookup /\ [][NextLookup]_vars

\* ------------------------------------------------ fetch_owners_of_crates
\* crate_names_from_source(dependencies, PkgSource::CratesIo)
crates_io_names == << "a", "zz", "c", "b" >>

\* every cache directory whose files are absent, malformed or of the first dump
AnyDisks ==
    {disk \in [Paths -> {None, Truncated, MetadataStored(1, 0, 1), Collection(1)}] :
        \A p \in Paths :
            IF p \in required_files THEN disk[p] \in {None, Truncated, FirstDump(p)}
            ELSE disk[p] = None}

\* CratesCache::new() and cached.expire(max_age); cached.age().unwrap() is
\* Some when the verdict is Fresh
fetch_owners_of_crates(ma) ==
    /\ pc = "idle" /\ fetch.pc = "idle"
    /\ fs[METADATA_FS].kind # "truncated"
    /\ LET state == expire_on_new_cache(ma) IN
          /\ cache_dir' = ~detaches(state)
          /\ fetch' = [pc |-> "users", state |-> state, using_cache |-> state = "Fresh",
                       i |-> 1, cached_users |-> "none", sources |-> << >>]
    /\ slots' = [f \in required_files |->
                    IF f = METADATA_FS THEN load_cached(None, METADATA_FS) ELSE None]
    /\ UNCHANGED apart
    /\ looked' = NoLook
    /\ forget_download
    /\ UNCHANGED <<now, server, calls, faulted, dir, fs>>

\* cached.expire(max_age) panics in load_cached
fetch_panics_in_expire(ma) ==
    /\ pc = "idle" /\ fetch.pc = "idle"
    /\ fs[METADATA_FS].kind = "truncated"
    /\ fetch' = [NoFetch EXCEPT !.pc = "panicked"]
    /\ cache_dir' = TRUE
    /\ slots' = [f \in required_files |-> None]
    /\ UNCHANGED apart
    /\ looked' = NoLook
    /\ forget_download
    /\ UNCHANGED <<now, server, calls, faulted, dir, fs>>

\* cached.publisher_users(crate_name) in the loop
fetch_cached_users ==
    /\ fetch.pc = "users"
    /\ fetch.i <= Len(crates_io_names)
    /\ lookup_returns("publisher_users", crates_io_names[fetch.i],
                      publisher_lookup(crates_io_names[fetch.i], 0, USERS_FS))
    /\ fetch' = [fetch EXCEPT
                    !.pc = IF publisher_lookup(crates_io_names[fetch.i], 0, USERS_FS).kind
                              = "panic"
                           THEN "panicked" ELSE "teams",
                    !.cached_users =
                        publisher_lookup(crates_io_names[fetch.i], 0, USERS_FS).kind]

\* `if let (Some(pub_users), Some(pub_teams)) = (cached_users, cached_teams)`:
\* where the two lists of the crate are taken from
UsersDecide(cached_users, cached_teams) ==
    IF cached_users = "Some" THEN "cache" ELSE "live"

source_for(cached_users, cached_teams) ==
    IF cached_users = "Some" /\ cached_teams = "Some" THEN "cache" ELSE "live"

\* cached.publisher_teams(crate_name), then the choice between the cached
\* publishers and the live API, whose requests succeed
fetch_cached_teams ==
    /\ fetch.pc = "teams"
    /\ lookup_returns("publisher_teams", crates_io_names[fetch.i],
                      publisher_lookup(crates_io_names[fetch.i], 1, TEAMS_FS))
    /\ LET cached_teams == publisher_lookup(crates_io_names[fetch.i], 1, TEAMS_FS).kind IN
          fetch' = IF cached_teams = "panic"
                   THEN [fetch EXCEPT !.pc = "panicked"]
                   ELSE [fetch EXCEPT
                            !.pc = "users",
                            !.i = fetch.i + 1,
                            !.cached_users = "none",
                            !.sources = Append(fetch.sources,
                                source_for(fetch.cached_users, cached_teams))]

\* the live API is asked and a request fails: the error is returned
fetch_live_fails ==
    /\ fetch.pc = "teams"
    /\ lookup_returns("publisher_teams", crates_io_names[fetch.i],
                      publisher_lookup(crates_io_names[fetch.i], 1, TEAMS_FS))
    /\ publisher_lookup(crates_io_names[fetch.i], 1, TEAMS_FS).kind # "panic"
    /\ source_for(fetch.cached_users,
                  publisher_lookup(crates_io_names[fetch.i], 1, TEAMS_FS).kind) = "live"
    /\ fetch' = [fetch EXCEPT !.pc = "failed", !.cached_users = "none"]

\* the loop is over and the two maps are returned
fetch_returns ==
    /\ fetch.pc = "users"
    /\ fetch.i > Len(crates_io_names)
    /\ fetch' = [fetch EXCEPT !.pc = "returned"]
    /\ UNCHANGED <<now, server, calls, faulted, dir, fs, cache_dir, slots, pc, max_age,
                   remembered_etag, response, pos, staged_files, uncommitted_files,
                   metadata_file, result, failed_at, expired, at_call, looked, apart>>

\* the process is over; the tool may be run again
fetch_exits ==
    /\ fetch.pc \in {"returned", "failed", "panicked"}
    /\ fetch' = NoFetch
    /\ UNCHANGED apart
    /\ looked' = NoLook
    /\ UNCHANGED <<now, server, calls, faulted, dir, fs, cache_dir, slots, pc, max_age,
                   remembered_etag, response, pos, staged_files, uncommitted_files,
                   metadata_file, result, failed_at, expired, at_call>>

InitFetch ==
    /\ now \in 0..MaxTime
    /\ server = [dump |-> 1, timestamp |-> 0, etag |-> 1]
    /\ calls = 0
    /\ faulted = FALSE
    /\ dir = "dir"
    /\ fs \in AnyDisks
    /\ cache_dir = TRUE
    /\ slots = [f \in required_files |-> None]
    /\ pc = "idle"
    /\ max_age = 0
    /\ remembered_etag = NoEtag
    /\ response = NoResponse
    /\ pos = 0
    /\ staged_files = {}
    /\ uncommitted_files = {}
    /\ metadata_file = FALSE
    /\ result = "none"
    /\ failed_at = "none"
    /\ expired = NoExpire
    /\ at_call = NoCall
    /\ apart_idle
    /\ looked = NoLook
    /\ fetch = NoFetch

NextFetch ==
    \/ \E ma \in MaxAges : fetch_owners_of_crates(ma)
    \/ \E ma \in MaxAges : fetch_panics_in_expire(ma)
    \/ fetch_cached_users
    \/ fetch_cached_teams
    \/ fetch_live_fails
    \/ fetch_returns
    \/ fetch_exits

SpecFetch == InitFetch /\ [][NextFetch]_vars

\* ------------------------------------------------ the rate-limited client
\* the variables of the cache and of the commands that use it
cache_vars == <<now, server, calls, faulted, dir, fs, cache_dir, slots, pc, max_age,
                remembered_etag, response, pos, staged_files, uncommitted_files,
                metadata_file, result, failed_at, expired, at_call, looked, fetch,
                beside>>

\* wait_to_honor_rate_limit: prev_req_time + Duration::from_secs(1)
SamePrevTime(prev_req_time) == prev_req_time

next_req_time(prev_req_time) == prev_req_time + Second

\* wait_to_honor_rate_limit: the Duration handed to thread::sleep by a call
\* that reads Instant::now() as t; 0 when nothing is slept
time_to_wait(last_request_time, t) ==
    IF last_request_time = {} THEN 0
    ELSE LET next == next_req_time(CHOOSE prev \in last_request_time : TRUE) IN
            IF next >= t THEN next - t ELSE 0

\* thread::sleep returns when the Duration has passed, or later
Lateness == 0..1

\* RateLimitedClient::wait_to_honor_rate_limit entered at instant t
wait_to_honor_rate_limit(t, late) ==
    LET slept == time_to_wait(client.last_request_time, t) IN
       /\ instant' = t + slept + late
       /\ client' = [last_request_time |-> {t + slept + late}]
       /\ got' = [prev |-> client.last_request_time, began |-> t, slept |-> slept,
                  at |-> t + slept + late, returned |-> TRUE]

\* time passes
elapse ==
    /\ instant < MaxInstant
    /\ instant' = instant + 1
    /\ got' = NoGet
    /\ UNCHANGED <<client, retry, sourced, compared, cli, cache_vars>>

\* RateLimitedClient::get, by itself
RateLimitedClient_get(late) ==
    /\ retry.pc = "idle"
    /\ instant <= MaxInstant
    /\ wait_to_honor_rate_limit(instant, late)
    /\ UNCHANGED <<retry, sourced, compared, cli, cache_vars>>

\* ------------------------------------------------------- get_with_retry
\* the statuses the live API may answer with
Statuses == {200} \cup OtherStatuses

\* the status of the response get_with_retry() holds
resp_status(r) == r.statuses[Len(r.statuses)]

\* get_with_retry: the condition of the while loop
RetriesOnceMore(r) == resp_status(r) # 200 /\ r.count <= r.attempts + 1

retries(r) == resp_status(r) # 200 /\ r.count <= r.attempts

\* get_with_retry up to the loop: client.get(url).call() and the two locals;
\* an Err of call() is returned at once
get_with_retry(attempts, caller, status, late) ==
    /\ retry.pc = "idle"
    /\ instant <= MaxInstant
    /\ wait_to_honor_rate_limit(instant, late)
    /\ retry' = IF call_is_err(status)
                THEN [NoRetry EXCEPT !.pc = "returned", !.attempts = attempts,
                                     !.statuses = <<status>>, !.result = "Err",
                                     !.publisher = caller]
                ELSE [pc |-> "loop", attempts |-> attempts, count |-> 1, wait |-> 5,
                      statuses |-> <<status>>, result |-> "none", publisher |-> caller]
    /\ UNCHANGED <<sourced, compared, cli, cache_vars>>

\* get_with_retry called with some number of attempts
call_get_with_retry(attempts, status, late) ==
    /\ attempts \in 0..MaxAttempts
    /\ get_with_retry(attempts, "none", status, late)

\* publishers::publisher_users or publisher_teams: get_with_retry(&url, client, 3)
live_publisher(status, late) ==
    /\ status \in Statuses
    /\ get_with_retry(3, "called", status, late)

\* one turn of the loop: the sleep, the next request, count and wait
retry_again(status, late) ==
    /\ retry.pc = "loop"
    /\ retries(retry)
    /\ wait_to_honor_rate_limit(instant + retry.wait * Second + late, 0)
    /\ retry' = IF call_is_err(status)
                THEN [retry EXCEPT !.pc = "returned", !.result = "Err",
                                   !.statuses = Append(retry.statuses, status)]
                ELSE [retry EXCEPT !.count = retry.count + 1,
                                   !.wait = retry.wait * 3,
                                   !.statuses = Append(retry.statuses, status)]
    /\ UNCHANGED <<sourced, compared, cli, cache_vars>>

\* the loop is left: Ok(resp)
retry_returns ==
    /\ retry.pc = "loop"
    /\ ~retries(retry)
    /\ retry' = [retry EXCEPT !.pc = "returned", !.result = "Ok"]
    /\ got' = NoGet
    /\ UNCHANGED <<instant, client, sourced, compared, cli, cache_vars>>

\* publisher_users or publisher_teams: the ? after get_with_retry, then
\* resp.into_json(), which fails when the body is not the expected document
live_publisher_returns(json) ==
    /\ retry.pc = "returned"
    /\ retry.publisher = "called"
    /\ retry' = [retry EXCEPT !.pc = "done",
                              !.publisher = IF retry.result = "Ok" /\ json
                                            THEN "Ok" ELSE "Err"]
    /\ got' = NoGet
    /\ UNCHANGED <<instant, client, sourced, compared, cli, cache_vars>>

\* the results are dropped
retry_forget ==
    /\ \/ retry.pc = "done"
       \/ retry.pc = "returned" /\ retry.publisher = "none"
    /\ retry' = NoRetry
    /\ got' = NoGet
    /\ UNCHANGED <<instant, client, sourced, compared, cli, cache_vars>>

InitLive ==
    /\ Init
    /\ dir = "dir"
    /\ server.etag = 1

\* the steps of a running get_with_retry() and of its caller
retry_step ==
    \/ \E status \in Statuses, late \in Lateness : retry_again(status, late)
    \/ retry_returns
    \/ \E json \in BOOLEAN : live_publisher_returns(json)

NextLive ==
    \/ elapse
    \/ \E late \in Lateness : RateLimitedClient_get(late)
    \/ \E attempts \in 0..MaxAttempts, status \in Statuses, late \in Lateness :
          call_get_with_retry(attempts, status, late)
    \/ \E status \in Statuses, late \in Lateness : live_publisher(status, late)
    \/ \E status \in Statuses, late \in Lateness : retry_again(status, late)
    \/ retry_returns
    \/ \E json \in BOOLEAN : live_publisher_returns(json)
    \/ retry_forget

\* a running get_with_retry() is not held up for ever: its loop is one thread
SpecLive == InitLive /\ [][NextLive]_vars /\ WF_vars(retry_step)

\* --------------------------------------------- provenance of the packages
\* no cache is in use
cache_at_rest ==
    /\ now = 0
    /\ server = [dump |-> 1, timestamp |-> 0, etag |-> 1]
    /\ calls = 0
    /\ faulted = FALSE
    /\ dir = "dir"
    /\ fs = [p \in Paths |-> None]
    /\ cache_dir = TRUE
    /\ slots = [f \in required_files |-> None]
    /\ pc = "idle"
    /\ max_age = 0
    /\ remembered_etag = NoEtag
    /\ response = NoResponse
    /\ pos = 0
    /\ staged_files = {}
    /\ uncommitted_files = {}
    /\ metadata_file = FALSE
    /\ result = "none"
    /\ failed_at = "none"
    /\ expired = NoExpire
    /\ at_call = NoCall
    /\ looked = NoLook
    /\ fetch = NoFetch

cache_unused ==
    /\ cache_at_rest
    /\ beside_idle

\* the most dependencies the first package declares
MaxDeps == 2

\* meta.packages, by PackageId: name, version and source (none for a path)
packages ==
    <<[name |-> "root", version |-> 1, source |-> "none"],
      [name |-> "b", version |-> 1, source |-> "crates.io"],
      [name |-> "c", version |-> 1, source |-> "crates.io"],
      [name |-> "c", version |-> 2, source |-> "git"]>>

PackageIds == DOMAIN packages

\* cargo_metadata::DependencyKind
DependencyKinds == {"normal", "development", "build"}

\* cargo_metadata::Dependency: name, req (0 for "*", v for "=v"), kind,
\* optional, and whether it asks for a feature of the package it names
Dependency(name, req, kind, optional, features) ==
    [name |-> name, req |-> req, kind |-> kind, optional |-> optional,
     features |-> features]

\* the dependencies a package may declare
Declarable(id) ==
    CASE id = 1 -> {Dependency(n, 0, k, FALSE, f) :
                        n \in {"b", "c"}, k \in DependencyKinds, f \in BOOLEAN}
      [] id = 2 -> {Dependency(t[1], t[2], k, o, FALSE) :
                        t \in {<<"c", 0>>, <<"c", 1>>, <<"root", 0>>},
                        k \in DependencyKinds, o \in BOOLEAN}
      [] id = 3 -> {Dependency("b", 0, k, FALSE, FALSE) : k \in {"normal", "development"}}
      [] OTHER -> {}

\* the subsets of S with at most n elements
RECURSIVE AtMost(_, _)
AtMost(S, n) ==
    IF n = 0 THEN {{}}
    ELSE AtMost(S, n - 1) \cup {T \cup {x} : T \in AtMost(S, n - 1), x \in S}

\* the dependency lists a package may have
DependencyLists(id) == AtMost(Declarable(id), IF id = 1 THEN MaxDeps ELSE 1)

\* the Metadata values handed to sourced_dependencies_from_metadata
Metadatas ==
    [dependencies_of : {<<d1, d2, d3, {}>> : d1 \in DependencyLists(1),
                            d2 \in DependencyLists(2), d3 \in DependencyLists(3)},
     workspace_members : {{1}, {1, 2}, {2}}]

\* Source::is_crates_io
is_crates_io(source) == source = "crates.io"

\* sourced_dependencies_from_metadata: the three loops that fill how
CratesIoFirst(id, workspace_members) ==
    IF is_crates_io(packages[id].source) THEN "CratesIo"
    ELSE IF id \in workspace_members THEN "Local"
    ELSE "Foreign"

PkgSource(id, workspace_members) ==
    IF id \in workspace_members THEN "Local"
    ELSE IF is_crates_io(packages[id].source) THEN "CratesIo"
    ELSE "Foreign"

\* VersionReq::matches
VersionReq_matches(req, version) == req = 0 \/ req = version

\* Dep::matches
Dep_matches(dep, id) ==
    dep.name = packages[id].name /\ VersionReq_matches(dep.req, packages[id].version)

\* extract_non_dev_dependencies: the dependencies that are followed
AnyKind(dep) == TRUE

followed(dep) == dep.kind # "development"

\* sourced_dependencies_from_metadata up to the call of
\* extract_non_dev_dependencies, whose first lines collect the Local ids
sourced_dependencies_from_metadata ==
    /\ sourced.pc = "called"
    /\ sourced' = [sourced EXCEPT
            !.pc = IF sourced.no_dev THEN "extract" ELSE "collect",
            !.how = [id \in PackageIds |-> PkgSource(id, sourced.workspace_members)],
            !.what = PackageIds,
            !.ids = IF sourced.no_dev
                    THEN {id \in PackageIds :
                            PkgSource(id, sourced.workspace_members) = "Local"}
                    ELSE {}]
    /\ UNCHANGED <<instant, client, got, retry, compared, cli, cache_vars>>

\* Dep::from_cargo_metadata_dependency, for the dependencies followed
deps_of(ids, dependencies_of) ==
    {[name |-> dep.name, req |-> dep.req] :
        dep \in {d \in UNION {dependencies_of[id] : id \in ids} : followed(d)}}

\* extract_non_dev_dependencies: one turn of the while loop
extract_turn ==
    /\ sourced.pc = "extract"
    /\ sourced.ids # {}
    /\ LET deps == deps_of(sourced.ids, sourced.dependencies_of)
           left == sourced.what \ sourced.ids
       IN sourced' = [sourced EXCEPT
            !.what_new = sourced.what_new \cup sourced.ids,
            !.what = left,
            !.ids = {id \in left : \E dep \in deps : Dep_matches(dep, id)},
            !.turns = sourced.turns + 1]
    /\ UNCHANGED <<instant, client, got, retry, compared, cli, cache_vars>>

\* extract_non_dev_dependencies returns (how_new, what_new), which replace
\* how and what
extract_returns ==
    /\ sourced.pc = "extract"
    /\ sourced.ids = {}
    /\ sourced' = [sourced EXCEPT !.pc = "collect", !.what = sourced.what_new]
    /\ UNCHANGED <<instant, client, got, retry, compared, cli, cache_vars>>

\* sourced_dependencies_from_metadata: one SourcedPackage for every key of how
collect_dependencies ==
    /\ sourced.pc = "collect"
    /\ sourced' = [sourced EXCEPT
            !.pc = "returned",
            !.dependencies = {<<id, sourced.how[id]>> : id \in sourced.what}]
    /\ UNCHANGED <<instant, client, got, retry, compared, cli, cache_vars>>

InitDeps ==
    /\ cache_unused
    /\ live_idle
    /\ compared = NoCompared
    /\ cli = NoCli
    /\ \E meta \in Metadatas, no_dev \in BOOLEAN :
          sourced = [NoSourced EXCEPT !.pc = "called",
                                      !.dependencies_of = meta.dependencies_of,
                                      !.workspace_members = meta.workspace_members,
                                      !.no_dev = no_dev]

NextDeps ==
    \/ sourced_dependencies_from_metadata
    \/ extract_turn
    \/ extract_returns
    \/ collect_dependencies

\* the function runs in one thread, which is not held up
SpecDeps == InitDeps /\ [][NextDeps]_vars /\ WF_vars(NextDeps)

\* ------------------------------------------------- PublisherData ordering
\* the largest publisher id
MaxId == 2

\* the PublisherData values that are compared
PublisherDatas ==
    {PublisherData(id, login, kind, name, avatar) :
        id \in 1..MaxId, login \in {"alice", "bob"}, kind \in {"team", "user"},
        name \in {"None", "Al"}, avatar \in {"None", "a.png"}}

\* u64::cmp
u64_cmp(x, y) == IF x < y THEN "Less" ELSE IF x = y THEN "Equal" ELSE "Greater"

\* impl PartialEq for PublisherData
DerivedEq(self, other) == self = other

PublisherData_eq(self, other) == self.id = other.id

\* impl PartialOrd for PublisherData
PublisherData_partial_cmp(self, other) == <<"Some", u64_cmp(self.id, other.id)>>

\* impl Ord for PublisherData
PublisherData_cmp(self, other) == u64_cmp(self.id, other.id)

\* a == b is evaluated
compare_eq ==
    /\ compared.eq = {}
    /\ compared' = [compared EXCEPT !.eq = {PublisherData_eq(compared.a, compared.b)}]
    /\ UNCHANGED <<instant, client, got, retry, sourced, cli, cache_vars>>

\* a.partial_cmp(&b) is evaluated
compare_partial_cmp ==
    /\ compared.partial_cmp = {}
    /\ compared' = [compared EXCEPT
            !.partial_cmp = {PublisherData_partial_cmp(compared.a, compared.b)}]
    /\ UNCHANGED <<instant, client, got, retry, sourced, cli, cache_vars>>

\* a.cmp(&b) is evaluated
compare_cmp ==
    /\ compared.cmp = {}
    /\ compared' = [compared EXCEPT !.cmp = {PublisherData_cmp(compared.a, compared.b)}]
    /\ UNCHANGED <<instant, client, got, retry, sourced, cli, cache_vars>>

InitOrd ==
    /\ cache_unused
    /\ live_idle
    /\ sourced = NoSourced
    /\ cli = NoCli
    /\ \E a \in PublisherDatas, b \in PublisherDatas :
          compared = [NoCompared EXCEPT !.a = a, !.b = b]

NextOrd ==
    \/ compare_eq
    \/ compare_partial_cmp
    \/ compare_cmp

SpecOrd == InitOrd /\ [][NextOrd]_vars

\* ------------------------------------------------------ the command line
\* the most items after the subcommand
MaxArgs == 3

\* a duration as it is written: a number and a unit ("" when there is none)
DurationText(number, unit) == [number |-> number, unit |-> unit]

\* an item of the command line: a flag (with the value attached by =, if
\* any), or a word (flag "")
Item(flag, value) == [flag |-> flag, value |-> value]

\* the items a command line is made of
Items ==
    {Item("-d", NoValue), Item("--diffable", NoValue), Item("--print-schema", NoValue),
     Item("--cache-max-age", NoValue),
     Item("--cache-max-age", DurationText(7, "d")),
     Item("--cache-max-age", DurationText(5, "")),
     Item("", DurationText(7, "d")), Item("", DurationText(5, ""))}

\* the subcommands
Commands == {"publishers", "crates", "json", "update"}

\* the sequences over S of length at most n
RECURSIVE SeqsUpTo(_, _)
SeqsUpTo(S, n) ==
    IF n = 0 THEN {<< >>}
    ELSE SeqsUpTo(S, n - 1) \cup {Append(q, x) : q \in SeqsUpTo(S, n - 1), x \in S}

\* short('d').long("diffable"), long("cache-max-age"), long("print-schema")
option_name(flag) ==
    CASE flag \in {"-d", "--diffable"} -> "diffable"
      [] flag = "--cache-max-age" -> "cache-max-age"
      [] flag = "--print-schema" -> "print-schema"
      [] OTHER -> "positional"

\* the options with their values: .argument("AGE") takes the value attached
\* by = or the word that follows, and has none when no word follows
RECURSIVE options(_)
options(args) ==
    IF args = << >> THEN << >>
    ELSE IF /\ Head(args) = Item("--cache-max-age", NoValue)
            /\ Len(args) >= 2
            /\ args[2].flag = ""
    THEN <<[name |-> "cache-max-age", value |-> args[2].value]>>
         \o options(Tail(Tail(args)))
    ELSE <<[name |-> option_name(Head(args).flag), value |-> Head(args).value]>>
         \o options(Tail(args))

\* the unit of a duration in seconds, 0 when there is no such unit
unit_seconds(unit) ==
    CASE unit = "s" -> 1
      [] unit = "d" -> 86400
      [] unit = "w" -> 604800
      [] OTHER -> 0

\* humantime::parse_duration: Err for a number without unit
parse_duration_ok(text) == text # NoValue /\ unit_seconds(text.unit) > 0

parse_duration(text) == text.number * unit_seconds(text.unit)

\* the options of the parser of a subcommand: QueryCommandArgs for publishers,
\* crates and json, cache_max_age alone for update
QueryOptionsForAll(command) == {"cache-max-age", "diffable"}

accepted_options(command) ==
    IF command = "update" THEN {"cache-max-age"} ELSE {"cache-max-age", "diffable"}

\* how often an option is given
occurrences(opts, name) == Cardinality({i \in DOMAIN opts : opts[i].name = name})

\* every item is consumed by a parser, no parser is left with a second item,
\* and the AGE that is given parses
consumed(opts, accepted) ==
    /\ \A i \in DOMAIN opts : opts[i].name \in accepted
    /\ \A name \in accepted : occurrences(opts, name) <= 1
    /\ \A i \in DOMAIN opts :
          opts[i].name = "cache-max-age" => parse_duration_ok(opts[i].value)

\* .fallback(Duration::from_secs(48 * 3600)) when the option is not given
cache_max_age_of(opts) ==
    IF occurrences(opts, "cache-max-age") = 0 THEN 48 * 3600
    ELSE parse_duration(opts[CHOOSE i \in DOMAIN opts : opts[i].name = "cache-max-age"].value)

\* args_parser().run_inner(argv)
run_inner(argv) ==
    LET opts == options(Tail(argv))
        command == Head(argv)
        failure == [ok |-> FALSE, command |-> command, cache_max_age |-> 0,
                    diffable |-> FALSE, print_schema |-> FALSE]
    IN IF consumed(opts, accepted_options(command))
       THEN [ok |-> TRUE, command |-> command, cache_max_age |-> cache_max_age_of(opts),
             diffable |-> occurrences(opts, "diffable") = 1, print_schema |-> FALSE]
       ELSE IF command = "json" /\ consumed(opts, {"print-schema"})
                /\ occurrences(opts, "print-schema") = 1
       THEN [failure EXCEPT !.ok = TRUE, !.print_schema = TRUE]
       ELSE failure

\* the command line is parsed
parse_args ==
    /\ cli.pc = "called"
    /\ cli' = [cli EXCEPT !.pc = "parsed", !.parsed = run_inner(cli.argv)]
    /\ UNCHANGED <<instant, client, got, retry, sourced, compared, cache_vars>>

\* the process is over
parse_exits ==
    /\ cli.pc = "parsed"
    /\ cli' = [cli EXCEPT !.pc = "exited"]
    /\ UNCHANGED <<instant, client, got, retry, sourced, compared, cache_vars>>

InitCli ==
    /\ cache_unused
    /\ live_idle
    /\ sourced = NoSourced
    /\ compared = NoCompared
    /\ \E command \in Commands, args \in SeqsUpTo(Items, MaxArgs) :
          cli = [NoCli EXCEPT !.pc = "called", !.argv = <<command>> \o args]

NextCli ==
    \/ parse_args
    \/ parse_exits

SpecCli == InitCli /\ [][NextCli]_vars

\* ------------------------------------- two runs on one cache directory
\* Two invocations of the tool work on the same cache directory: the
\* CratesCache object followed so far, and a second process that runs
\* download() on an object of its own.  Each step of the second run is one
\* file-system call, as for the first.

\* fs::rename of commit() finds no source: download() returns the error
commit_rename_not_found ==
    /\ pc = "commit"
    /\ commit_next(uncommitted_files, metadata_file) # "done"
    /\ ~exists(with_extension(commit_next(uncommitted_files, metadata_file)))
    /\ download_returns("Err", IF commit_next(uncommitted_files, metadata_file) = METADATA_FS
                               THEN "commit_metadata" ELSE "commit")
    /\ UNCHANGED <<call_state, faulted, fs, slots>>

\* what the second run has of its object and its call: everything else is
\* left alone by its steps
second_leaves == <<now, server, calls, faulted, dir, cache_dir, slots, pc, max_age,
                   remembered_etag, response, pos, staged_files, uncommitted_files,
                   metadata_file, result, failed_at, at_call, looked, fetch,
                   instant, client, got, retry, sourced, compared, cli, update, named,
                   hashed>>

\* the second run's download(ma) on a new CratesCache is answered 304
second_not_modified(ma) ==
    /\ second.pc = "idle"
    /\ fs[METADATA_FS].kind # "truncated"
    /\ not_modified(status_for(if_none_match(fs[METADATA_FS], ma)))
    /\ second' = [NoSecond EXCEPT !.pc = "returned", !.result = "Fresh"]
    /\ expired' = NoExpire
    /\ UNCHANGED <<fs, second_leaves>>

\* the second run's download(ma) receives the dump the server offers, as the
\* complete archive, and opens it
second_ingests(ma) ==
    /\ second.pc = "idle"
    /\ dir = "dir"
    /\ fs[METADATA_FS].kind # "truncated"
    /\ ~not_modified(status_for(if_none_match(fs[METADATA_FS], ma)))
    /\ second' = [NoSecond EXCEPT !.pc = "ingest", !.dump = server.dump, !.pos = 1]
    /\ expired' = NoExpire
    /\ UNCHANGED <<fs, second_leaves>>

\* what a member of the second run's archive deserializes to; the server
\* gives dump d the etag d and, with the clock standing, the timestamp it has now
second_parsed(file) ==
    IF file = METADATA_FS
    THEN MetadataStored(second.dump, server.timestamp, second.dump)
    ELSE Collection(second.dump)

\* the second run stores a member: the same .part path as the first run's
second_store ==
    /\ second.pc = "ingest"
    /\ second.pos <= Len(Archives[1])
    /\ route(Archives[1][second.pos]) # "unused"
    /\ LET file == route(Archives[1][second.pos]) IN
          /\ fs' = [fs EXCEPT ![out_path(file)] = second_parsed(file)]
          /\ second' = [second EXCEPT !.pos = @ + 1, !.staged_files = @ \cup {file}]
    /\ expired' = NoExpire
    /\ UNCHANGED second_leaves

\* the second run passes a member it does not use
second_skip ==
    /\ second.pc = "ingest"
    /\ second.pos <= Len(Archives[1])
    /\ route(Archives[1][second.pos]) = "unused"
    /\ ~all_staged(second.staged_files)
    /\ second' = [second EXCEPT !.pos = @ + 1]
    /\ expired' = NoExpire
    /\ UNCHANGED <<fs, second_leaves>>

\* the second run's loop ends and its commit() takes the staged set
second_ends ==
    /\ second.pc = "ingest"
    /\ \/ second.pos > Len(Archives[1])
       \/ /\ second.pos <= Len(Archives[1])
          /\ route(Archives[1][second.pos]) = "unused"
          /\ all_staged(second.staged_files)
    /\ second' = [second EXCEPT !.pc = "commit",
                                !.uncommitted_files = second.staged_files \ {METADATA_FS},
                                !.metadata_file = (METADATA_FS \in second.staged_files),
                                !.staged_files = {}]
    /\ expired' = NoExpire
    /\ UNCHANGED <<fs, second_leaves>>

\* one fs::rename of the second run's commit() succeeds
second_rename ==
    /\ second.pc = "commit"
    /\ commit_next(second.uncommitted_files, second.metadata_file) # "done"
    /\ exists(with_extension(commit_next(second.uncommitted_files, second.metadata_file)))
    /\ LET file == commit_next(second.uncommitted_files, second.metadata_file) IN
          /\ fs' = rename(with_extension(file), file)
          /\ second' = [second EXCEPT !.uncommitted_files = @ \ {file},
                                      !.metadata_file = (@ /\ file # METADATA_FS)]
    /\ expired' = NoExpire
    /\ UNCHANGED second_leaves

\* one fs::rename of the second run's commit() finds no source
second_rename_not_found ==
    /\ second.pc = "commit"
    /\ commit_next(second.uncommitted_files, second.metadata_file) # "done"
    /\ ~exists(with_extension(commit_next(second.uncommitted_files, second.metadata_file)))
    /\ second' = [second EXCEPT !.pc = "returned", !.result = "Err"]
    /\ expired' = NoExpire
    /\ UNCHANGED <<fs, second_leaves>>

\* the second run's commit() returns Ok, and its download() Stale or Expired
second_ok ==
    /\ second.pc = "commit"
    /\ commit_next(second.uncommitted_files, second.metadata_file) = "done"
    /\ second' = [second EXCEPT !.pc = "returned", !.result = "Ok"]
    /\ expired' = NoExpire
    /\ UNCHANGED <<fs, second_leaves>>

\* the directory is empty, or holds the first dump as an earlier update left
\* it; each of the two processes calls download() once
InitTwo ==
    /\ InitLookup
    /\ \/ fs = [p \in Paths |-> None]
       \/ fs = [p \in Paths |-> IF p \in required_files THEN FirstDump(p) ELSE None]

NextTwo ==
    \/ Publish
    \/ \E ma \in MaxAges : expire(ma)
    \/ calls = 0 /\ \E ma \in MaxAges : download_not_modified(ma)
    \/ calls = 0 /\ \E ma \in MaxAges : download_ingests(ma, 1)
    \/ ingest_store
    \/ ingest_skip
    \/ ingest_ends
    \/ commit_rename
    \/ commit_rename_not_found
    \/ download_ok
    \/ \E ma \in MaxAges : second_not_modified(ma)
    \/ \E ma \in MaxAges : second_ingests(ma)
    \/ second_store
    \/ second_skip
    \/ second_ends
    \/ second_rename
    \/ second_rename_not_found
    \/ second_ok

SpecTwo == InitTwo /\ [][NextTwo]_vars

\* ------------------------------------------------- the update subcommand
\* what the steps of update() itself leave alone, besides the cache object
update_leaves == <<now, server, calls, faulted, dir, fs, pc, pos, staged_files,
                   uncommitted_files, metadata_file, looked, fetch, instant, client, got,
                   retry, sourced, compared, cli, second, named, hashed>>

\* update(): CratesCache::new() and RateLimitedClient::new()
update_starts ==
    /\ pc = "idle"
    /\ update.pc = "idle"
    /\ update' = [NoUpdate EXCEPT !.pc = "called"]
    /\ cache_dir' = TRUE
    /\ slots' = [f \in required_files |-> None]
    /\ UNCHANGED <<update_leaves, max_age, remembered_etag, response, result, failed_at,
                   expired, at_call>>

\* update(): the match on what download() returned; std::process::exit(1) in
\* the arms of Stale and of Err
ExitOnErr(state) ==
    IF state = "Err" THEN "exit 1" ELSE "returns"

update_match(state) ==
    IF state \in {"Stale", "Err"} THEN "exit 1" ELSE "returns"

\* download() has returned to update(), which ends the process or returns
update_ends ==
    /\ update.pc = "called"
    /\ pc = "idle"
    /\ result \in {"Fresh", "Expired", "Stale", "Err"}
    /\ update' = [pc |-> "ended", state |-> result, exit |-> update_match(result)]
    /\ UNCHANGED <<update_leaves, cache_dir, slots, max_age, remembered_etag, response,
                   result, failed_at, expired, at_call>>

\* the process is over; the subcommand may be run again
update_over ==
    /\ update.pc = "ended"
    /\ update' = NoUpdate
    /\ max_age' = 0
    /\ remembered_etag' = NoEtag
    /\ response' = NoResponse
    /\ result' = "none"
    /\ failed_at' = "none"
    /\ at_call' = NoCall
    /\ UNCHANGED <<update_leaves, cache_dir, slots, expired>>

\* update() calls download() once, on the object it has created
update_downloads == update.pc = "called" /\ result = "none"

NextUpdate ==
    \/ update.pc = "idle" /\ Tick
    \/ update.pc = "idle" /\ Publish
    \/ update_starts
    \/ update_downloads /\ \E ma \in MaxAges : download_call_fails(ma)
    \/ update_downloads /\ \E ma \in MaxAges : download_not_modified(ma)
    \/ update_downloads /\ \E ma \in MaxAges : download_not_a_directory(ma)
    \/ update_downloads /\ \E ma \in MaxAges : download_ingests(ma, 1)
    \/ ingest_store
    \/ ingest_skip
    \/ ingest_ends
    \/ commit_rename
    \/ download_ok
    \/ update_ends
    \/ update_over

SpecUpdate == Init /\ [][NextUpdate]_vars

\* ------------------------------------------------------ store_multi_map
\* what a call of a function that only computes leaves as it is
pure_leaves == <<now, server, calls, faulted, dir, fs, cache_dir, slots, pc, max_age,
                 remembered_etag, response, pos, staged_files, uncommitted_files,
                 metadata_file, result, failed_at, expired, at_call, looked, fetch,
                 instant, client, got, retry, sourced, compared, cli, second, update>>

\* no command is running
commands_idle ==
    /\ cache_at_rest
    /\ live_idle
    /\ sourced = NoSourced
    /\ compared = NoCompared
    /\ cli = NoCli
    /\ second = NoSecond
    /\ update = NoUpdate

\* the most entries store_multi_map is given
MaxEntries == 3

\* the CrateOwner records the entries are drawn from
CrateIds == 1..2

CrateOwners ==
    {[crate_id |-> c, owner_id |-> o, owner_kind |-> 0] : c \in CrateIds, o \in {10, 11}}

\* hashed.entry(key).or_insert_with(Vec::new).push(entry.clone())
InsertEntry(lists, key, entry) == [lists EXCEPT ![key] = <<entry>>]

push_entry(lists, key, entry) == [lists EXCEPT ![key] = Append(@, entry)]

\* one turn of entries.iter().for_each, with key_fn = |owner| owner.crate_id
store_multi_map_turn ==
    /\ hashed.pc = "for_each"
    /\ hashed.i <= Len(hashed.entries)
    /\ LET entry == hashed.entries[hashed.i]
           key == entry[owner_crate_id]
       IN  hashed' = [hashed EXCEPT !.i = @ + 1,
                                    !.keys = @ \cup {key},
                                    !.vec = push_entry(@, key, entry)]
    /\ UNCHANGED <<pure_leaves, named>>

\* self.store(cache, file, hashed)
store_multi_map_stores ==
    /\ hashed.pc = "for_each"
    /\ hashed.i > Len(hashed.entries)
    /\ hashed' = [hashed EXCEPT !.pc = "stored"]
    /\ UNCHANGED <<pure_leaves, named>>

\* store_multi_map is called with a list of entries; the HashMap is new
InitMulti ==
    /\ commands_idle
    /\ named = NoNamed
    /\ \E given \in SeqsUpTo(CrateOwners, MaxEntries) :
          hashed = [pc |-> "for_each", entries |-> given, i |-> 1, keys |-> {},
                    vec |-> [k \in CrateIds |-> << >>]]

NextMulti ==
    \/ store_multi_map_turn
    \/ store_multi_map_stores

SpecMulti == InitMulti /\ [][NextMulti]_vars

\* ----------------------------------------------- crate_names_from_source
\* the most packages crate_names_from_source is given
MaxCrates == 3

\* String: the bytes of a name ("a", "ab", "b")
PackageNames == {<<97>>, <<97, 98>>, <<98>>}

\* enum PkgSource
PkgSources == {"Local", "CratesIo", "Foreign"}

\* struct SourcedPackage, with the name of its package
SourcedPackages == [source : {"Local", "CratesIo"}, name : PackageNames]

\* impl Ord for String: the bytes are compared lexicographically
RECURSIVE String_lt(_, _)
String_lt(a, b) ==
    IF b = << >> THEN FALSE
    ELSE IF a = << >> THEN TRUE
    ELSE IF Head(a) # Head(b) THEN Head(a) < Head(b)
    ELSE String_lt(Tail(a), Tail(b))

\* .filter(|p| p.source == source)
EverySource(p, source) == TRUE

filter_source(p, source) == p.source = source

\* crates.iter().filter(..).map(|p| p.package.name.clone()).collect()
RECURSIVE filtered_crate_names(_, _)
filtered_crate_names(crates, source) ==
    IF crates = << >> THEN << >>
    ELSE IF filter_source(Head(crates), source)
         THEN <<Head(crates).name>> \o filtered_crate_names(Tail(crates), source)
         ELSE filtered_crate_names(Tail(crates), source)

\* v with x put before its first element that is not less than x
RECURSIVE sorted_insert(_, _)
sorted_insert(v, x) ==
    IF v = << >> THEN <<x>>
    ELSE IF String_lt(Head(v), x) THEN <<Head(v)>> \o sorted_insert(Tail(v), x)
    ELSE <<x>> \o v

\* Vec::sort_unstable: the elements of v in ascending order (equal Strings
\* cannot be told apart, so the order among them does not show)
RECURSIVE sort_unstable(_)
sort_unstable(v) ==
    IF v = << >> THEN << >>
    ELSE sorted_insert(sort_unstable(Tail(v)), Head(v))

\* Vec::dedup: of consecutive equal elements only the first is kept
Undeduped(v) == v

RECURSIVE dedup(_)
dedup(v) ==
    IF Len(v) < 2 THEN v
    ELSE IF v[1] = v[2] THEN dedup(Tail(v))
    ELSE <<v[1]>> \o dedup(Tail(v))

crate_names_from_source(crates, source) ==
    dedup(sort_unstable(filtered_crate_names(crates, source)))

\* let mut filtered_crate_names = crates.iter().filter(..).map(..).collect()
crate_names_collect ==
    /\ named.pc = "called"
    /\ named' = [named EXCEPT !.pc = "collected",
                              !.result = filtered_crate_names(named.crates, named.source)]
    /\ UNCHANGED <<pure_leaves, hashed>>

\* filtered_crate_names.sort_unstable()
crate_names_sort ==
    /\ named.pc = "collected"
    /\ named' = [named EXCEPT !.pc = "sorted", !.result = sort_unstable(@)]
    /\ UNCHANGED <<pure_leaves, hashed>>

\* filtered_crate_names.dedup(); filtered_crate_names
crate_names_dedup ==
    /\ named.pc = "sorted"
    /\ named' = [named EXCEPT !.pc = "returned", !.result = dedup(@)]
    /\ UNCHANGED <<pure_leaves, hashed>>

\* crate_names_from_source(crates, source) is called
InitNames ==
    /\ commands_idle
    /\ hashed = NoHashed
    /\ \E given \in SeqsUpTo(SourcedPackages, MaxCrates), source \in PkgSources :
          named = [pc |-> "called", crates |-> given, source |-> source, result |-> << >>]

NextNames ==
    \/ crate_names_collect
    \/ crate_names_sort
    \/ crate_names_dedup

SpecNames == InitNames /\ [][NextNames]_vars

\* ---------------------------------------------------------- properties
\* download() has just returned
returned == pc = "idle" /\ result # "none"

\* expire() has just returned
expire_returned == expired.state # "none"

\* the validator remembered from the metadata load_metadata() gave at the call
remembered_at_call ==
    IF at_call.meta = None THEN NoEtag ELSE at_call.meta.etag

\* C1: while download() has not reached commit(), and after it has failed
\* before commit() (request, CacheUpdater::new, parsing or store()), every
\* final-name cache file has the content it had when download() was called.
C1_FailureBeforeCommitKeepsFiles ==
    (\/ pc = "ingest"
     \/ returned /\ result = "Err" /\ failed_at \in {"request", "updater", "ingest"})
    => \A file \in required_files : fs[file] = at_call.fs[file]

\* a download() over a committed cache failed in the loop after store() wrote
\* a .part file that differs from the committed file
C1_Witness ==
    /\ returned /\ result = "Err" /\ failed_at = "ingest"
    /\ \E file \in required_files :
          /\ at_call.fs[file] # None
          /\ fs[with_extension(file)] # at_call.fs[with_extension(file)]
          /\ fs[with_extension(file)] # fs[file]

\* C2: commit() renames the staged metadata file only when no other staged
\* file is left to rename, and a commit() that failed at an earlier rename
\* leaves metadata.json as download() found it.
C2_MetadataRenamedLast ==
    /\ [][fs'[METADATA_FS] # fs[METADATA_FS]
            => pc = "commit" /\ uncommitted_files = {} /\ metadata_file]_vars
    /\ [](returned /\ failed_at = "commit" => fs[METADATA_FS] = at_call.fs[METADATA_FS])

\* commit() has renamed record files and then the metadata file
C2_Witness ==
    /\ pc = "commit" /\ ~metadata_file /\ uncommitted_files = {}
    /\ fs[METADATA_FS] = parsed(METADATA_FS)
    /\ fs[METADATA_FS] # at_call.fs[METADATA_FS]
    /\ \E file \in RecordFiles : fs[file] # at_call.fs[file]

\* C3: an expire() that follows a download() whose commit() failed before the
\* metadata file reports Unknown or the verdict of the metadata.json on disk.
C3_ExpireAfterFailedCommitUsesDisk ==
    expire_returned /\ expired.after = "commit"
    => expired.state \in {"Unknown", expire_on_new_cache(expired.max_age)}

\* C4: when expire() on a newly opened CratesCache returns Fresh, the four
\* record files come from the dump metadata.json comes from.
C4_FreshImpliesOneDump ==
    \A ma \in MaxAges :
        expire_on_new_cache(ma) = "Fresh"
        => \A file \in RecordFiles : fs[file].dump = fs[METADATA_FS].dump

\* C5: metadata.json is never from a newer dump than a record file on disk.
C5_MetadataNotNewerThanRecords ==
    fs[METADATA_FS] # None
    => \A file \in RecordFiles :
          fs[file] # None => fs[METADATA_FS].dump <= fs[file].dump

\* C6: when download() returns Expired or Stale, the four record files and
\* metadata.json hold the content of the dump just fetched.
C6_SuccessReplacesAllFiles ==
    returned /\ result \in {"Expired", "Stale"}
    => \A file \in required_files : fs[file] = parsed(file)

\* C7: on a 304 response download() returns Fresh, and the cache directory
\* and every path in it are as they were at the call.
C7_NotModifiedTouchesNothing ==
    returned /\ response.status = 304
    => result = "Fresh" /\ fs = at_call.fs /\ dir = at_call.dir

\* the server answered 304 to the stored validator over a committed cache
C7_Witness ==
    /\ returned /\ response.status = 304 /\ result = "Fresh"
    /\ at_call.fs[METADATA_FS] # None
    /\ at_call.fs[METADATA_FS].etag = response.etag

\* C8: a download() that committed returns Stale when the response's etag
\* equals the validator remembered at the call (absent when no metadata
\* could be loaded; absent equals absent), and Expired when it differs.
C8_StaleIffValidatorUnchanged ==
    returned /\ result \in {"Stale", "Expired"}
    => /\ result = "Stale" <=> response.etag = remembered_at_call
       /\ result = "Expired" <=> response.etag # remembered_at_call

\* no metadata could be loaded, the response has no etag, and the result is Stale
C8_Witness ==
    /\ returned /\ result = "Stale"
    /\ at_call.meta = None
    /\ response.etag = NoEtag
    /\ response.status = 200

C10_FreshIffYoungerThanMaxAge ==
    expire_returned /\ expired.meta # None /\ age_ok(expired.meta, now)
    => /\ expired.state = "Fresh" <=> age(expired.meta, now) < expired.max_age
       /\ expired.state = "Expired" <=> age(expired.meta, now) >= expired.max_age

\* expire() returned Expired for metadata exactly max_age old
C10_Witness ==
    /\ expire_returned /\ expired.meta # None
    /\ age(expired.meta, now) = expired.max_age
    /\ expired.state = "Expired"

\* a lookup has just returned or panicked
lookup_returned == looked.op \in {"publisher_users", "publisher_teams"}

\* the cache directory holds every file, and every file deserializes
loadable_cache ==
    \A file \in required_files : fs[file].kind \in {"meta", "records"}

\* C11: expire() on an object that holds no metadata returns Unknown when
\* metadata.json is absent or does not deserialize; it does not panic.
C11_UnknownWithoutUsableMetadata ==
    /\ expired.state # "none"
    /\ slots[METADATA_FS] = None
    /\ fs[METADATA_FS].kind \in {"none", "truncated"}
    => expired.state = "Unknown"

\* C12: expire() detaches the directory handle exactly when its verdict is
\* Expired or Unknown, a detached handle stays detached for as long as the
\* object lives, and age(), publisher_users() and publisher_teams() called on
\* a detached handle return None.
C12_DetachedLookupsReturnNone ==
    /\ [](expired.state \in {"Expired", "Unknown"} => ~cache_dir)
    /\ [][expired'.state = "Fresh" => cache_dir' = cache_dir]_vars
    /\ [][~cache_dir /\ cache_dir' => New]_vars
    /\ [](looked.op # "none" /\ looked.detached => looked.kind = "None")

\* a lookup of a known crate on a detached handle, with the crates collection
\* in memory, returned None
C12_Witness ==
    /\ looked.op = "publisher_users" /\ looked.name = "a"
    /\ looked.detached /\ looked.memoized
    /\ loadable_cache
    /\ looked.kind = "None"

\* C13: a lookup of a crate with owners, on an object whose freshness check
\* was negative and whose download() has just succeeded, returns the owners.
C13_LookupAfterRefreshAnswers ==
    /\ lookup_returned /\ looked.name = "a"
    /\ looked.detached
    /\ looked.after \in {"Stale", "Expired"}
    /\ loadable_cache
    => looked.kind = "Some"

\* C14: with a loadable cache, a lookup returns None only when the name is
\* not in the crates index.
C14_NoneOnlyForUnknownCrate ==
    /\ lookup_returned
    /\ ~looked.detached
    /\ loadable_cache
    /\ looked.kind = "None"
    => looked.name \notin keys(rows(CRATES_FS, slots[CRATES_FS]), crate_name)

\* the descriptors a lookup of crate id has to return: one for each row of
\* owners with that crate id and that kind whose owner id is in the index,
\* in row order, with the fields of the index row
described(list, id, kind, owners, index) ==
    LET edges == {i \in 1..Len(owners) :
                     /\ owners[i].crate_id = id
                     /\ owners[i].owner_kind = kind
                     /\ \E j \in 1..Len(index) : index[j].id = owners[i].owner_id}
    IN  /\ Len(list) = Cardinality(edges)
        /\ \A k \in 1..Len(list) : \E i \in edges :
              /\ Cardinality({e \in edges : e < i}) = k - 1
              /\ list[k].id = owners[i].owner_id
              /\ \E j \in 1..Len(index) :
                    /\ index[j].id = list[k].id
                    /\ list[k].name = index[j].name
                    /\ list[k].login = IF kind = 0 THEN index[j].gh_login
                                       ELSE index[j].login
                    /\ list[k].avatar = IF kind = 0 THEN index[j].gh_avatar
                                        ELSE index[j].avatar
                    /\ list[k].kind = IF kind = 0 THEN "user" ELSE "team"

\* the lookup just made answers from collections it could load, for a crate
\* that is in the crates index and has a row in the owners index
answerable(index_fs) ==
    /\ cache_dir
    /\ \A file \in {CRATES_FS, CRATE_OWNERS_FS, index_fs} :
          load(file) # None /\ ~load_panics(file)
    /\ looked.name \in keys(rows(CRATES_FS, load(CRATES_FS)), crate_name)
    /\ \E i \in 1..Len(rows(CRATE_OWNERS_FS, load(CRATE_OWNERS_FS))) :
          rows(CRATE_OWNERS_FS, load(CRATE_OWNERS_FS))[i].crate_id =
             get(rows(CRATES_FS, load(CRATES_FS)), crate_name, looked.name).id

\* C15: for a crate in the crates index that has ownership rows,
\* publisher_users returns one descriptor for each row of individual kind
\* whose owner is in the users index, in row order, with that user's id,
\* login, name and avatar; rows whose owner is not in the index are dropped.
\* publisher_teams does the same with the rows of team kind and the teams index.
C15_OneDescriptorPerKnownOwner ==
    /\ looked.op = "publisher_users" /\ answerable(USERS_FS)
       => /\ looked.kind = "Some"
          /\ described(looked.list,
                       get(rows(CRATES_FS, load(CRATES_FS)), crate_name, looked.name).id,
                       0, rows(CRATE_OWNERS_FS, load(CRATE_OWNERS_FS)),
                       rows(USERS_FS, load(USERS_FS)))
    /\ looked.op = "publisher_teams" /\ answerable(TEAMS_FS)
       => /\ looked.kind = "Some"
          /\ described(looked.list,
                       get(rows(CRATES_FS, load(CRATES_FS)), crate_name, looked.name).id,
                       1, rows(CRATE_OWNERS_FS, load(CRATE_OWNERS_FS)),
                       rows(TEAMS_FS, load(TEAMS_FS)))

\* publisher_users("a") returned users 11 and 10, in the order of their rows,
\* and nothing for the row of owner 99, who is in no users index
C15_Witness ==
    /\ looked.op = "publisher_users" /\ looked.name = "a"
    /\ looked.kind = "Some"
    /\ Len(looked.list) = 2
    /\ looked.list[1].id = 11 /\ looked.list[2].id = 10

\* the files the loop has staged when it has consumed the members before i
staged_before(i) ==
    {route(entries[j]) : j \in 1..(i - 1)} \ {"unused"}

\* C16, as claimed: no member after the one that completed the set of
\* required files is consumed.
C16_NothingReadAfterCompletion ==
    pc \in {"ingest", "commit"}
    => \A i \in 1..Len(entries) :
          required_files \subseteq staged_before(i + 1) => pos <= i + 1

\* C16, amended: the loop ends at the first member with a name download()
\* does not use that it meets when all required files are staged, or at the
\* end of the archive; it never passes such a member, and it does consume
\* members with used names that come before it.
C16_StopsAtFirstUnusedAfterCompletion ==
    /\ pc \in {"ingest", "commit"}
       => \A i \in 1..(pos - 1) :
             route(entries[i]) = "unused" => ~(required_files \subseteq staged_before(i))
    /\ pc = "commit" /\ pos <= Len(entries)
       => route(entries[pos]) = "unused" /\ required_files \subseteq staged_before(pos)

\* the loop has ended with all required files staged and members left unread
C16_Witness ==
    /\ pc = "commit"
    /\ pos < Len(entries)
    /\ required_files \subseteq staged_before(pos)

\* C17: a download() whose request was answered with a status other than 200
\* and 304 returns an error and leaves every path as it was at the call.
C17_OtherStatusIsError ==
    returned /\ response.status \notin {0, 200, 304}
    => result = "Err" /\ fs = at_call.fs

\* C18, as claimed: when download() fails in CacheUpdater::new because the
\* cache path is not a directory, no request has been made, and the path
\* stays as it is.
C18_NotADirectoryFailsBeforeRequest ==
    returned /\ at_call.dir = "notdir" /\ failed_at = "updater"
    => /\ response.status = 0
       /\ dir = "notdir" /\ fs = at_call.fs

\* C18, amended: when the cache path is not a directory, download() fails:
\* in the request, or in CacheUpdater::new after the request was answered
\* with a status other than 304; the path and the files stay as they are; and
\* the loop over the archive runs only when the cache path is a directory.
C18_NotADirectoryFailsAfterRequest ==
    /\ returned /\ at_call.dir = "notdir"
       => /\ result = "Err" /\ failed_at \in {"request", "updater"}
          /\ failed_at = "updater" => response.status \notin {0, 304}
          /\ dir = "notdir" /\ fs = at_call.fs
    /\ pc \in {"ingest", "commit"} => dir = "dir"

\* download() failed in CacheUpdater::new on a path that is not a directory,
\* after the server had answered the request
C18_Witness ==
    /\ returned /\ at_call.dir = "notdir"
    /\ result = "Err" /\ failed_at = "updater"
    /\ response.status = 200

\* the update subcommand: download() on a new CratesCache, whose metadata is
\* the metadata.json on disk, found younger than max_age
update_on_young_cache ==
    /\ at_call.meta # None
    /\ at_call.meta = at_call.fs[METADATA_FS]
    /\ age_ok(at_call.meta, at_call.now)
    /\ age(at_call.meta, at_call.now) < max_age

\* C19: when the cache is younger than max_age and the server offers a newer
\* dump, a download() that returns without error has left the cache files as
\* they were.
C19_YoungCacheIsNotReplaced ==
    /\ returned /\ result # "Err"
    /\ update_on_young_cache
    /\ at_call.server > at_call.meta.dump
    => \A file \in required_files : fs[file] = at_call.fs[file]

\* C20: fetch_owners_of_crates uses the cache exactly when expire() returned
\* Fresh; after Expired and after Unknown alike, every lookup in the cache
\* returns None and the publishers of every crate come from the live API.
C20_CacheUsedOnlyWhenFresh ==
    fetch.pc \in {"users", "teams", "returned", "failed"}
    => /\ fetch.using_cache <=> fetch.state = "Fresh"
       /\ fetch.state \in {"Expired", "Unknown"}
          => /\ \A i \in 1..Len(fetch.sources) : fetch.sources[i] = "live"
             /\ looked.op # "none" => looked.kind = "None"
             /\ fetch.cached_users \in {"none", "None"}

\* fetch_owners_of_crates has returned after an Expired verdict over a cache
\* whose files all load, with the publishers of every crate from the live API
C20_Witness ==
    /\ fetch.pc = "returned"
    /\ fetch.state = "Expired"
    /\ loadable_cache
    /\ Len(fetch.sources) = Len(crates_io_names)
    /\ \A i \in 1..Len(fetch.sources) : fetch.sources[i] = "live"

\* ------------------------------------------------------------------ C21
\* C21: whenever a get() of the RateLimitedClient returns, the time it recorded
\* is at least one second after the time recorded by the previous get(),
\* however long the client was idle before (no burst allowance); the first
\* get() sleeps for no time at all.
C21_RequestsOneSecondApart ==
    got.returned =>
        /\ \A prev \in got.prev : got.at >= prev + Second
        /\ got.prev = {} => got.slept = 0

\* a get() that began one tick short of a second after the previous one slept
\* for that tick
C21_Witness ==
    /\ got.returned
    /\ got.prev = {got.began - (Second - 1)}
    /\ got.slept = 1
    /\ got.at >= got.began + got.slept

\* ------------------------------------------------------------------ C22
\* C22: get_with_retry with attempts = n makes at most n + 1 requests: every
\* request but the first follows a response whose status is not 200 and comes
\* while fewer than n retries have been made, no request follows a 200
\* response, and a call that has entered its loop returns.
C22_AtMostAttemptsPlusOneRequests ==
    /\ [](/\ Len(retry.statuses) <= retry.attempts + 1
          /\ \A i \in 1..Len(retry.statuses) - 1 : retry.statuses[i] # 200)
    /\ (retry.pc = "loop") ~> (retry.pc = "returned")

\* a call with three attempts that got 200 only to its fourth request
C22_Witness ==
    /\ retry.pc = "returned"
    /\ retry.attempts = 3
    /\ Len(retry.statuses) = 4
    /\ retry.statuses[4] = 200
    /\ retry.result = "Ok"

\* ------------------------------------------------------------------ C23
\* C23: when get_with_retry has returned and none of the responses it received
\* had status 200, it has returned an error, and so has the publisher_users or
\* publisher_teams that called it.
C23_ExhaustedRetriesAreAnError ==
    /\ retry.pc \in {"returned", "done"}
    /\ \A i \in 1..Len(retry.statuses) : retry.statuses[i] # 200
    => /\ retry.result = "Err"
       /\ retry.pc = "done" => retry.publisher = "Err"

\* ------------------------------------------------------------------ C24
\* the packages reached from a set in at most n steps along dependencies that
\* are not development dependencies, a dependency leading to every package
\* with its name and a version its requirement admits
RECURSIVE reached_within(_, _, _)
reached_within(n, from, dependencies_of) ==
    IF n = 0 THEN from
    ELSE LET near == reached_within(n - 1, from, dependencies_of) IN
         near \cup {id \in PackageIds :
                      \E via \in near : \E dep \in dependencies_of[via] :
                         /\ dep.kind # "development"
                         /\ dep.name = packages[id].name
                         /\ (dep.req = 0 \/ dep.req = packages[id].version)}

\* the provenance of a package: local for a workspace member, else by source
provenance(id, members) ==
    IF id \in members THEN "Local"
    ELSE IF packages[id].source = "crates.io" THEN "CratesIo" ELSE "Foreign"

activated_only_by_dev(id) ==
    /\ sourced.workspace_members = {1}
    /\ id \notin sourced.workspace_members
    /\ \E dep \in sourced.dependencies_of[2] :
          /\ dep.optional /\ dep.kind = "normal"
          /\ dep.name = packages[id].name
          /\ (dep.req = 0 \/ dep.req = packages[id].version)
    /\ \E dep \in sourced.dependencies_of[1] :
          dep.kind = "development" /\ dep.name = "b" /\ dep.features
    /\ \A dep \in sourced.dependencies_of[1] :
          /\ dep.kind # "development" => ~(dep.name = "b" /\ dep.features)
          /\ dep.name # packages[id].name

\* C25: a package that is in the package list only because a development
\* dependency activates the optional normal dependency that declares it is
\* left out of the result with no_dev = true and is in it with no_dev = false.
C25_UnactivatedOptionalIsExcluded ==
    \A id \in PackageIds :
        sourced.pc = "returned" /\ activated_only_by_dev(id)
        => (sourced.no_dev <=> \A entry \in sourced.dependencies : entry[1] # id)

\* ------------------------------------------------------------------ C26
\* C26: with no_dev = false, sourced_dependencies_from_metadata returns one
\* entry for every package of the metadata and no other, tagged Local for a
\* workspace member whatever its source, else CratesIo for a crates.io
\* source, else Foreign.
C26_OneTaggedEntryPerPackage ==
    sourced.pc = "returned" /\ ~sourced.no_dev
    => /\ sourced.dependencies =
            {<<id, provenance(id, sourced.workspace_members)>> : id \in PackageIds}
       /\ \A id \in PackageIds :
             Cardinality({entry \in sourced.dependencies : entry[1] = id}) = 1

\* the member b from crates.io is Local, root outside the workspace and the
\* git package are Foreign, and c from crates.io is CratesIo
C26_Witness ==
    /\ sourced.pc = "returned" /\ ~sourced.no_dev
    /\ sourced.workspace_members = {2}
    /\ sourced.dependencies =
          {<<1, "Foreign">>, <<2, "Local">>, <<3, "CratesIo">>, <<4, "Foreign">>}

\* ------------------------------------------------------------------ C27
\* C27: for two PublisherData values, == holds exactly when the ids are
\* equal, cmp is the order of the ids, partial_cmp is Some of what cmp gives,
\* and cmp gives Equal exactly when == holds, whatever login, name, avatar
\* and kind are.
C27_ComparedByIdAlone ==
    /\ \A e \in compared.eq : e <=> compared.a.id = compared.b.id
    /\ \A o \in compared.cmp :
          /\ o = "Less" <=> compared.a.id < compared.b.id
          /\ o = "Equal" <=> compared.a.id = compared.b.id
          /\ o = "Greater" <=> compared.a.id > compared.b.id
    /\ \A p \in compared.partial_cmp : \A o \in compared.cmp : p = <<"Some", o>>
    /\ \A e \in compared.eq : \A o \in compared.cmp : e <=> o = "Equal"

\* a user and a team that differ in every field but the id compare equal
C27_Witness ==
    /\ compared.a.id = compared.b.id
    /\ compared.a.login # compared.b.login
    /\ compared.a.kind # compared.b.kind
    /\ compared.a.name # compared.b.name
    /\ compared.a.avatar # compared.b.avatar
    /\ compared.eq = {TRUE}
    /\ compared.cmp = {"Equal"}
    /\ compared.partial_cmp = {<<"Some", "Equal">>}

\* ------------------------------------------------------------------ C28
\* the ways to write --cache-max-age with the value 7d, the ways to write the
\* diffable flag, and the command lines made of at most one of each
age_forms ==
    {<<Item("--cache-max-age", DurationText(7, "d"))>>,
     <<Item("--cache-max-age", NoValue), Item("", DurationText(7, "d"))>>}

diffable_forms == {<<Item("-d", NoValue)>>, <<Item("--diffable", NoValue)>>}

query_lines ==
    {<< >>} \cup age_forms \cup diffable_forms
    \cup {a \o d : a \in age_forms, d \in diffable_forms}
    \cup {d \o a : a \in age_forms, d \in diffable_forms}

\* C28: for crates, publishers and json the parser accepts every combination
\* of the diffable flag and --cache-max-age with a value that has a unit, and
\* gives the flag and the age (48 hours when none is given); for update it
\* accepts --cache-max-age alone and rejects every line with -d or --diffable;
\* it rejects a --cache-max-age that no value follows and one whose value has
\* no unit.
C28_AcceptedOptions ==
    cli.pc = "parsed" =>
        LET command == Head(cli.argv)
            args == Tail(cli.argv)
            flagged == \E i \in DOMAIN args : args[i].flag \in {"-d", "--diffable"}
            aged == \E i \in DOMAIN args : args[i].flag = "--cache-max-age"
        IN /\ command \in {"crates", "publishers", "json"} /\ args \in query_lines
              => /\ cli.parsed.ok
                 /\ cli.parsed.diffable = flagged
                 /\ cli.parsed.cache_max_age = IF aged THEN 7 * 86400 ELSE 48 * 3600
           /\ command = "update" /\ args \in {<< >>} \cup age_forms
              => cli.parsed.ok /\ cli.parsed.cache_max_age = IF aged THEN 7 * 86400
                                                             ELSE 48 * 3600
           /\ command = "update" /\ flagged => ~cli.parsed.ok
           /\ (\E i \in DOMAIN args :
                 /\ args[i].flag = "--cache-max-age"
                 /\ \/ args[i].value = DurationText(5, "")
                    \/ /\ args[i].value = NoValue
                       /\ \/ i = Len(args)
                          \/ args[i + 1].flag # ""
                          \/ args[i + 1].value = DurationText(5, ""))
              => ~cli.parsed.ok

\* json --diffable --cache-max-age 7d is accepted, with the flag and seven days
C28_Witness ==
    /\ cli.pc = "parsed"
    /\ cli.argv = <<"json", Item("--diffable", NoValue),
                    Item("--cache-max-age", NoValue), Item("", DurationText(7, "d"))>>
    /\ cli.parsed.ok /\ cli.parsed.diffable
    /\ cli.parsed.cache_max_age = 604800

\* ------------------------------------------------------------------ C29
\* C29: the request of download() carries if-none-match exactly when stored
\* metadata was loaded, its age is strictly below max_age and it holds an
\* etag, and then it carries that etag; when the stored metadata is max_age
\* old or older the request carries none, and the etag remembered for the
\* Stale/Expired decision is still the stored one.
C29_ConditionalIffYoungWithValidator ==
    max_age > 0 /\ result # "panic" =>
        LET meta == at_call.meta
            young == /\ meta.timestamp <= at_call.now
                     /\ at_call.now - meta.timestamp < max_age
        IN /\ at_call.precondition # NoEtag
              <=> meta # None /\ young /\ meta.etag # NoEtag
           /\ at_call.precondition # NoEtag => at_call.precondition = meta.etag
           /\ meta # None /\ ~young
              => at_call.precondition = NoEtag /\ remembered_etag = meta.etag

\* metadata with an etag that is max_age old: the request is unconditional,
\* the etag is remembered, and the unchanged dump is reported as Stale
C29_Witness ==
    /\ max_age > 0
    /\ at_call.meta # None
    /\ at_call.meta.etag # NoEtag
    /\ at_call.now - at_call.meta.timestamp = max_age
    /\ at_call.precondition = NoEtag
    /\ remembered_etag = at_call.meta.etag
    /\ result = "Stale"

\* ------------------------------------------------------------------ C30
\* the archive of a response has a metadata.json member
declares_timestamp(archive) ==
    archive # 0 /\ \E i \in 1..Len(Archives[archive]) : route(Archives[archive][i]) = METADATA_FS

\* C30: when download() returns Stale or Expired for a dump that has a
\* metadata entry, metadata.json holds the timestamp declared in the dump, not
\* the time of the download, together with the etag of the response; and an
\* expire(max_age) right after it, on a newly opened cache or on an object
\* whose directory handle is attached, returns Expired when the dump is
\* max_age old or older and Fresh otherwise.
C30_StoredTimestampIsTheDumps ==
    /\ returned /\ result \in {"Stale", "Expired"} /\ declares_timestamp(response.archive)
       => /\ fs[METADATA_FS] = MetadataStored(server.dump, server.timestamp, response.etag)
          /\ \A ma \in MaxAges :
                expire_on_new_cache(ma) = IF now - server.timestamp >= ma THEN "Expired" ELSE "Fresh"
    /\ /\ expire_returned /\ expired.followed \in {"Stale", "Expired"}
       /\ declares_timestamp(expired.archive) /\ ~expired.detached
       => /\ expired.meta = MetadataStored(server.dump, server.timestamp, server.etag)
          /\ expired.state = IF now - server.timestamp >= expired.max_age THEN "Expired" ELSE "Fresh"

\* a dump declared at 0 was downloaded at 1, and expire(1) right after the
\* download returns Expired
C30_Witness ==
    /\ expire_returned /\ expired.followed \in {"Stale", "Expired"}
    /\ declares_timestamp(expired.archive) /\ ~expired.detached
    /\ now = 1 /\ server.timestamp = 0
    /\ expired.max_age = 1
    /\ expired.meta.timestamp = 0
    /\ expired.state = "Expired"

\* ------------------------------------------------------------------ C31
\* C31: while download() is in its loop over the archive, a read through the
\* same object, its directory handle attached, of a collection store() has
\* staged returns the staged value, whatever the committed file holds.
C31_ReadAfterStoreSeesStagedValue ==
    pc = "ingest" /\ cache_dir
    => \A file \in staged_files : load_cached(slots[file], file) = parsed(file)

\* metadata of an older dump was memoized and is on disk, and the metadata of
\* the new dump has been staged: the read gives the new one
C31_Witness ==
    /\ pc = "ingest" /\ cache_dir
    /\ METADATA_FS \in staged_files
    /\ at_call.meta # None /\ at_call.meta # parsed(METADATA_FS)
    /\ fs[METADATA_FS] = at_call.meta
    /\ load_cached(slots[METADATA_FS], METADATA_FS) = parsed(METADATA_FS)

\* ------------------------------------------------------------------ C32
\* C32: a slot that holds a value changes only when store() replaces it, and
\* an expire() on an attached object whose metadata slot holds a value takes
\* that value, whatever metadata.json holds by then.
C32_MemoizedValueIsReturned ==
    [][/\ \A f \in required_files :
             slots[f] # None /\ slots'[f] # slots[f]
             => pc = "ingest" /\ pos <= Len(entries) /\ route(entries[pos]) = f
       /\ /\ expired' # expired /\ expired'.state \notin {"none", "panic"}
          /\ cache_dir /\ slots[METADATA_FS] # None
          => expired'.meta = slots[METADATA_FS]]_vars

\* the object has loaded metadata.json once and has never downloaded; the
\* second run has since published other metadata, and expire() still takes
\* the value loaded first
C32_Witness ==
    /\ expire_returned /\ ~expired.detached
    /\ calls = 0
    /\ expired.meta # None
    /\ fs[METADATA_FS] # None
    /\ fs[METADATA_FS] # expired.meta

\* ------------------------------------------------------------------ C35
\* C35: as long as no second run has started on the directory, a download()
\* of a complete archive does not fail and leaves every file with the content
\* of its dump; with a second run the only failure of download() is a rename
\* in commit(), and it happens only when the second run is in its commit() or
\* has left it.
C35_RunsAreNotCoordinated ==
    /\ second.pc = "idle"
       => /\ result # "Err"
          /\ returned /\ result \in {"Stale", "Expired"}
             => \A file \in required_files : fs[file] = parsed(file)
    /\ result = "Err"
       => /\ failed_at \in {"commit", "commit_metadata"}
          /\ second.pc \in {"commit", "returned"}

\* download() has returned without error and has published the metadata of
\* its dump, and a record file beside it holds another dump, which the
\* second run wrote
C35_Witness ==
    /\ returned /\ result \in {"Stale", "Expired"}
    /\ fs[METADATA_FS] = parsed(METADATA_FS)
    /\ second.dump # response.dump
    /\ \E file \in RecordFiles : fs[file] = Collection(second.dump)

\* ------------------------------------------------------------------ C33
\* C33: when get_with_retry has returned, every request of it whose call()
\* returned an error, and which was not the last the retry bound allows, was
\* followed by another request.
C33_FailedAttemptIsRetried ==
    retry.pc \in {"returned", "done"}
    => \A i \in 1..Len(retry.statuses) :
          call_is_err(retry.statuses[i]) /\ i <= retry.attempts
          => Len(retry.statuses) > i

\* ------------------------------------------------------------------ C34
\* C34: every descriptor publisher_users returns has kind user and is the
\* owner of a row of that crate with owner_kind 0, every descriptor
\* publisher_teams returns has kind team and is the owner of a row of that
\* crate with owner_kind 1, neither returns more descriptors than the crate
\* has rows of its kind, and a row with another owner_kind makes no lookup
\* fail.
C34_EdgeGoesToTheLookupOfItsKind ==
    lookup_returned /\ looked.kind = "Some"
    => LET kind == IF looked.op = "publisher_users" THEN 0 ELSE 1
           owners == rows(CRATE_OWNERS_FS, load(CRATE_OWNERS_FS))
           id == get(rows(CRATES_FS, load(CRATES_FS)), crate_name, looked.name).id
           edges == {i \in 1..Len(owners) :
                        owners[i].crate_id = id /\ owners[i].owner_kind = kind}
       IN  /\ Len(looked.list) <= Cardinality(edges)
           /\ \A k \in 1..Len(looked.list) :
                 /\ looked.list[k].kind = IF kind = 0 THEN "user" ELSE "team"
                 /\ \E i \in edges : owners[i].owner_id = looked.list[k].id

\* publisher_users("b") returned the empty list: crate b has a row of kind 1
\* and a row of kind 2 whose owner is in the users index
C34_Witness ==
    /\ looked.op = "publisher_users" /\ looked.name = "b"
    /\ looked.kind = "Some"
    /\ looked.list = << >>
    /\ \E i \in 1..Len(rows(CRATE_OWNERS_FS, load(CRATE_OWNERS_FS))) :
          LET row == rows(CRATE_OWNERS_FS, load(CRATE_OWNERS_FS))[i] IN
             /\ row.crate_id = 2 /\ row.owner_kind = 2
             /\ row.owner_id \in keys(rows(USERS_FS, load(USERS_FS)), row_id)

\* ------------------------------------------------------------------ C36
\* C36: for every crate fetch_owners_of_crates has dealt with, both lists came
\* from the cache when publisher_users and publisher_teams both return a value
\* for it on the cache object, and both from the live API otherwise; and when
\* the call has failed, it stopped at a crate that was to be fetched live.
C36_BothListsFromOneSource ==
    fetch.pc \in {"users", "teams", "returned", "failed"}
    => /\ \A i \in 1..Len(fetch.sources) :
             fetch.sources[i] = "cache"
             <=> /\ publisher_lookup(crates_io_names[i], 0, USERS_FS).kind = "Some"
                 /\ publisher_lookup(crates_io_names[i], 1, TEAMS_FS).kind = "Some"
       /\ \A i \in 1..Len(fetch.sources) : fetch.sources[i] \in {"cache", "live"}
       /\ fetch.pc = "failed"
          => /\ Len(fetch.sources) = fetch.i - 1
             /\ ~(/\ publisher_lookup(crates_io_names[fetch.i], 0, USERS_FS).kind = "Some"
                  /\ publisher_lookup(crates_io_names[fetch.i], 1, TEAMS_FS).kind = "Some")

\* with a fresh cache, crate a was answered from the cache and crate zz, which
\* is not in the cache, from the live API
C36_Witness ==
    /\ fetch.pc = "returned" /\ fetch.using_cache
    /\ fetch.sources[1] = "cache"
    /\ fetch.sources[2] = "live"

\* ------------------------------------------------------------------ C37
\* C37: when update() has ended, the process has exited with status 1 if
\* download() returned Stale or an error, and update() has returned normally
\* if download() returned Fresh or Expired.
C37_ExitOneOnStaleOrError ==
    update.pc = "ended"
    => /\ update.state = result
       /\ result \in {"Stale", "Err"} => update.exit = "exit 1"
       /\ result \in {"Fresh", "Expired"} => update.exit = "returns"
       /\ update.exit \in {"exit 1", "returns"}

\* the server sent again the dump of the stored validator: download()
\* returned Stale and the process exited with status 1
C37_Witness ==
    /\ update.pc = "ended"
    /\ update.state = "Stale"
    /\ remembered_etag # NoEtag
    /\ update.exit = "exit 1"

\* C38: when store_multi_map has stored the HashMap, its keys are exactly the
\* keys of the entries given, no key maps to an empty list, the list of a key
\* holds exactly the given entries with that key in the order they were
\* given, and the lists together hold as many entries as were given: the
\* edges indexed under a crate_id are exactly the given edges with that
\* crate_id.
RECURSIVE Total(_, _)
Total(lists, among) ==
    IF among = {} THEN 0
    ELSE LET k == CHOOSE x \in among : TRUE
         IN  Len(lists[k]) + Total(lists, among \ {k})

WithKey(given, k) == SelectSeq(given, LAMBDA e : e.crate_id = k)

C38_GroupedWithoutLoss ==
    hashed.pc = "stored" =>
        /\ hashed.keys = {hashed.entries[i].crate_id : i \in 1..Len(hashed.entries)}
        /\ \A k \in hashed.keys :
              /\ hashed.vec[k] # << >>
              /\ hashed.vec[k] = WithKey(hashed.entries, k)
        /\ \A k \in DOMAIN hashed.vec : k \notin hashed.keys => hashed.vec[k] = << >>
        /\ Total(hashed.vec, hashed.keys) = Len(hashed.entries)

\* three entries are stored: two of one crate, the other crate's between them
C38_Witness ==
    /\ hashed.pc = "stored"
    /\ Len(hashed.entries) = 3
    /\ hashed.entries[1].crate_id = 1
    /\ hashed.entries[2].crate_id = 2
    /\ hashed.entries[3].crate_id = 1
    /\ hashed.entries[1] # hashed.entries[3]
    /\ Len(hashed.vec[1]) = 2

\* C39: what crate_names_from_source(packages, source) returns holds the name
\* of every given package whose tag equals source and no other name, is in
\* strictly ascending order, so no name is there twice, and is what the
\* function returns for the same packages given in any other order.
Reordered(given, perm) == [i \in 1..Len(given) |-> given[perm[i]]]

Reorderings(n) == {perm \in [1..n -> 1..n] : \A i, j \in 1..n : i # j => perm[i] # perm[j]}

C39_NamesOfTheSourceAscendingOnce ==
    named.pc = "returned" =>
        /\ {named.result[i] : i \in 1..Len(named.result)}
              = {named.crates[i].name :
                    i \in {j \in 1..Len(named.crates) : named.crates[j].source = named.source}}
        /\ \A i, j \in 1..Len(named.result) :
              i < j => String_lt(named.result[i], named.result[j])
        /\ \A perm \in Reorderings(Len(named.crates)) :
              crate_names_from_source(Reordered(named.crates, perm), named.source)
                 = named.result

\* the packages are given out of order and one name twice, all under the tag
\* asked for; the two names are returned in ascending order
C39_Witness ==
    /\ named.pc = "returned"
    /\ Len(named.crates) = 3
    /\ named.source = "CratesIo"
    /\ named.crates[1] = [source |-> "CratesIo", name |-> <<98>>]
    /\ named.crates[2] = [source |-> "CratesIo", name |-> <<97, 98>>]
    /\ named.crates[3] = [source |-> "CratesIo", name |-> <<98>>]
    /\ named.result = <<(<<97, 98>>), (<<98>>)>>

====
